---- MODULE Spec2Model ----
(***************************************************************************)
(* Keen 5 / Keen 6 episode logic of omnispeak (ck5_misc.c, ck6_misc.c):    *)
(* the info-layer scanners, the lump tables and the episode presence       *)
(* checks, as a state machine.                                             *)
(***************************************************************************)
EXTENDS Integers, Sequences, FiniteSets, TLC

(* ------------------------------ bounds --------------------------------- *)
MapW == 2
MapH == 2
MaxInfoValue == 126
MaxMissing == 1
SwitchMapW == 6
SwitchMapH == 7
MaxToggles == 2
NumStars == 2
PoolCap == 2
TeleMapW == 12
TeleMapH == 4
MaxTeleCalls == 2

(* ------------------------- program constants --------------------------- *)
(* The passes of the two loops of CK5_ExplodeGalaxy.                      *)
PaletteSteps == 18
ExplodeSteps == 30
WaitTics == 4

D_NotPlaying == 0
D_Easy == 1
D_Normal == 2
D_Hard == 3

CK5_MAXLUMPS == 34
CK6_MAXLUMPS == 40

Lump_0 == 0
Lump_Keen == 1
Lump_Candy == 2
Lump_Marshmallow == 3
Lump_Cola == 4
Lump_Stix == 5
Lump_SugarStoopies == 6
Lump_BagOSugar == 7
Lump_VitalinKeg == 8
Lump_Gems == 9
Lump_Stunner == 10
Lump_PinkShot == 11
Lump_MapKeen == 12
Lump_ShikadiMaster == 13
Lump_Shikadi == 14
Lump_Shocksund == 15
Lump_Sphereful == 16
Lump_Sparky == 17
Lump_Mine == 18
Lump_Slicestar == 19
Lump_RoboRed == 20
Lump_Spirogrip == 21
Lump_Ampton == 22
Lump_VolteFace == 23
Lump_PurplePlat == 24
Lump_Spindred == 25
Lump_Shelley == 26
Lump_RedPlat == 27
Lump_UnusedRedPlat == 28
Lump_Keycard == 29
Lump_Korath == 30
Lump_QEDFuse == 31
Lump_QEDExplosion == 32
Lump_Teleporter == 33

Lump_100Pts == 2
Lump_200Pts == 3
Lump_500Pts == 4
Lump_1000Pts == 5
Lump_2000Pts == 6
Lump_5000Pts == 7
Lump_1UP == 8
Lump_Mapkeen == 11
Lump_12 == 12
Lump_Bloog == 13
Lump_BloogletR == 14
Lump_BloogletY == 15
Lump_BloogletB == 16
Lump_BloogletG == 17
Lump_Platform == 18
Lump_Gik == 19
Lump_Blorb == 20
Lump_Bobba == 21
Lump_Babobba == 22
Lump_Bloogguard == 23
Lump_Flect == 24
Lump_Bip == 25
Lump_PlatBip == 26
Lump_Bipship == 27
Lump_Nospike == 28
Lump_Orbatrix == 29
Lump_Ceilick == 30
Lump_Fleex == 31
Lump_Rope == 32
Lump_Sandwich == 33
Lump_Turret == 34
Lump_Passcard == 35
Lump_Molly == 36

(* The item table with an entry that is no lump of the episode.            *)
ck5_itemLumps_StrayEntry ==
  <<Lump_Gems, Lump_Gems, Lump_Gems, Lump_Gems, Lump_Candy, Lump_Marshmallow,
    Lump_Cola, Lump_Stix, Lump_SugarStoopies, Lump_BagOSugar, Lump_VitalinKeg,
    CK5_MAXLUMPS>>

(* Tables; C index i is TLA+ index i + 1.                                  *)
ck5_itemLumps ==
  <<Lump_Gems, Lump_Gems, Lump_Gems, Lump_Gems, Lump_Candy, Lump_Marshmallow,
    Lump_Cola, Lump_Stix, Lump_SugarStoopies, Lump_BagOSugar, Lump_VitalinKeg,
    Lump_Stunner>>

ck5_lumpStarts ==
  <<0, 108, 210, 212, 214, 216, 218, 220, 222, 224, 233, 236, 242, 304, 320,
    337, 358, 366, 378, 385, 387, 393, 405, 417, 422, 424, 428, 446, 447, 207,
    294, 283, 286, 290>>

ck5_lumpEnds ==
  <<0, 206, 211, 213, 215, 217, 219, 221, 223, 232, 234, 241, 282, 319, 336,
    357, 365, 377, 384, 386, 392, 404, 416, 421, 423, 427, 445, 446, 447, 209,
    303, 285, 289, 293>>

ck6_itemLumps ==
  <<Lump_Gems, Lump_Gems, Lump_Gems, Lump_Gems, Lump_100Pts, Lump_200Pts,
    Lump_500Pts, Lump_1000Pts, Lump_2000Pts, Lump_5000Pts, Lump_1UP,
    Lump_Stunner>>

ck6_lumpStarts ==
  <<11, 52, 150, 152, 154, 156, 158, 160, 162, 164, 173, 184, 0, 342, 351,
    360, 369, 378, 424, 387, 399, 402, 285, 254, 317, 414, 423, 269, 298, 329,
    246, 239, 183, 182, 176, 435, 433, 0, 0, 0>>

ck6_lumpEnds ==
  <<26, 149, 151, 153, 155, 157, 159, 161, 163, 172, 174, 238, 0, 350, 359,
    368, 377, 386, 432, 398, 401, 413, 297, 268, 328, 422, 423, 284, 316, 341,
    253, 245, 183, 182, 181, 435, 434, 0, 0, 0>>

(* Activity states of CK_object.active and level states of ck_gameState.   *)
ActiveStates ==
  {"OBJ_INACTIVE", "OBJ_ACTIVE", "OBJ_ALWAYS_ACTIVE", "OBJ_EXISTS_ONLY_ONSCREEN"}

LevelStates == {"LS_InLevel", "LS_TeleportToKorath"}

(* ----------------------- calls to collaborators ------------------------ *)
(* A spawner call as the scanner makes it: name, tile, numeric argument    *)
(* and the remaining argument (direction name or purple flag).             *)
Call(fn, x, y, arg, opt) ==
  [fn |-> fn, x |-> x, y |-> y, arg |-> arg, opt |-> opt]

CallVoid(fn) == Call(fn, 0, 0, 0, "void")

(* The effect of dispatching one tile: spawner calls in order, the lumps   *)
(* whose needed flag is assigned true, RF_SetScrollBlock calls, chunks     *)
(* or-ed into ca_graphChunkNeeded directly, and fusesRemaining afterwards. *)
NoEffect(g) ==
  [spawns |-> <<>>, marks |-> {}, scroll |-> <<>>, direct |-> {},
   fuses |-> g.fusesRemaining]

SetScrollBlock_Ignored(g, x, y, b) == NoEffect(g)

(* RF_SetScrollBlock(x, y, b) as the whole of a case.                      *)
SetScrollBlock(g, x, y, b) ==
  [NoEffect(g) EXCEPT !.scroll = <<[x |-> x, y |-> y, block |-> b]>>]

Spawn1(g, c, lumps) ==
  [NoEffect(g) EXCEPT !.spawns = <<c>>, !.marks = lumps]

(* ------------------------- difficulty cascades ------------------------- *)
(* case hi: if (difficulty < D_Hard) break;                                *)
(* case mid: if (difficulty < D_Normal) break;                             *)
(* case lo: handler.  TRUE iff control reaches the handler of the base     *)
(* code when the switch is entered at label v.                             *)
Reaches_NoHardGate(v, hi, mid, d) ==
  IF v = hi \/ v = mid THEN ~(d < D_Normal) ELSE TRUE

Reaches(v, hi, mid, d) ==
  IF v = hi
    THEN IF d < D_Hard THEN FALSE ELSE IF d < D_Normal THEN FALSE ELSE TRUE
    ELSE IF v = mid THEN (IF d < D_Normal THEN FALSE ELSE TRUE) ELSE TRUE

(* case 33: if (difficulty > D_Easy) break;                                *)
(* case 34: if (difficulty > D_Normal) break;                              *)
(* case 35: CK_SpawnStandPlatform.                                         *)
ReachesStand_LtGates(v, d) ==
  IF v = 33
    THEN IF d < D_Easy THEN FALSE ELSE IF d < D_Normal THEN FALSE ELSE TRUE
    ELSE IF v = 34 THEN (IF d < D_Normal THEN FALSE ELSE TRUE) ELSE TRUE

ReachesStand(v, d) ==
  IF v = 33
    THEN IF d > D_Easy THEN FALSE ELSE IF d > D_Normal THEN FALSE ELSE TRUE
    ELSE IF v = 34 THEN (IF d > D_Normal THEN FALSE ELSE TRUE) ELSE TRUE

(* One three-label cascade of the switch: the handler runs once, at the    *)
(* base label, however many labels were passed on the way.                 *)
Cascade_SpawnPerLabel(v, hi, mid, g, c, lumps) ==
  IF Reaches(v, hi, mid, g.difficulty)
    THEN [NoEffect(g) EXCEPT
            !.spawns = IF v = hi THEN <<c, c, c>>
                       ELSE IF v = mid THEN <<c, c>> ELSE <<c>>,
            !.marks = lumps]
    ELSE NoEffect(g)

Cascade(v, hi, mid, g, c, lumps) ==
  IF Reaches(v, hi, mid, g.difficulty) THEN Spawn1(g, c, lumps) ELSE NoEffect(g)

(* case 69 / 57..68: the item index handed to CK_SpawnItem.                *)
ItemValue(v) == IF v = 69 THEN 68 ELSE v

(* -------------------- CK5_ScanInfoLayer: the switch -------------------- *)
(* g is ck_gameState as the tile sees it.                                  *)
(* No label of the switch matches and there is no default label.           *)
CK5_Default_MarksLump0(v, x, y, g) ==
  [NoEffect(g) EXCEPT !.marks = {Lump_0}]

CK5_Default(v, x, y, g) == NoEffect(g)

CK5_Fuse_AlwaysIncrement(x, y, g) ==
  [NoEffect(g) EXCEPT
     !.spawns = IF g.currentLevel = 12
                  THEN <<Call("CK5_QEDSpawn", x, y, 0, "")>> ELSE <<>>,
     !.fuses = g.fusesRemaining + 1,
     !.marks = {Lump_QEDFuse}]

CK5_Fuse(x, y, g) ==
  IF g.currentLevel = 12
    THEN [NoEffect(g) EXCEPT
            !.fuses = 4,
            !.spawns = <<Call("CK5_QEDSpawn", x, y, 0, "")>>,
            !.marks = {Lump_QEDFuse}]
    ELSE [NoEffect(g) EXCEPT
            !.fuses = g.fusesRemaining + 1,
            !.marks = {Lump_QEDFuse}]

(* Code 26 spawning the arriving Keen in every level state.                *)
CK5_MapTele_AnyLevelState(x, y, g) ==
  [NoEffect(g) EXCEPT
     !.spawns = <<Call("CK5_MapKeenTeleSpawn", x, y, 0, "")>>]

(* case 26: if (levelState == LS_TeleportToKorath)                         *)
(*            CK5_MapKeenTeleSpawn(x, y);                                  *)
CK5_MapTele(x, y, g) ==
  IF g.levelState = "LS_TeleportToKorath"
    THEN [NoEffect(g) EXCEPT
            !.spawns = <<Call("CK5_MapKeenTeleSpawn", x, y, 0, "")>>]
    ELSE NoEffect(g)

CK5_Case(v, x, y, g) ==
  CASE v \in {1, 2} ->
         [NoEffect(g) EXCEPT
            !.spawns = <<Call("CK_SpawnKeen", x, y, IF v = 1 THEN 1 ELSE -1, ""),
                         CallVoid("CK_DemoSignSpawn")>>,
            !.direct = {235},
            !.marks = {Lump_Keen}]
    [] v = 3 ->
         [NoEffect(g) EXCEPT
            !.spawns = <<CallVoid("CK_DemoSignSpawn")>> \o
                       (IF g.levelState # "LS_TeleportToKorath"
                          THEN <<Call("CK_SpawnMapKeen", x, y, 0, "")>>
                          ELSE <<>>),
            !.direct = {235},
            !.marks = {Lump_MapKeen}]
    [] v \in 4..6 ->
         Cascade(v, 6, 5, g, Call("CK5_SpawnSparky", x, y, 0, ""), {Lump_Sparky})
    [] v \in 7..9 ->
         Cascade(v, 9, 8, g, Call("CK5_SpawnMine", x, y, 0, ""), {Lump_Mine})
    [] v \in 10..12 ->
         Cascade(v, 12, 11, g, Call("CK5_SpawnSlice", x, y, 0, "CD_north"),
                 {Lump_Slicestar})
    [] v \in 13..15 ->
         Cascade(v, 15, 14, g, Call("CK5_SpawnRobo", x, y, 0, ""), {Lump_RoboRed})
    [] v \in 16..18 ->
         Cascade(v, 18, 17, g, Call("CK5_SpawnSpirogrip", x, y, 0, ""),
                 {Lump_Spirogrip})
    [] v \in 19..21 ->
         Cascade(v, 21, 20, g, Call("CK5_SpawnSliceDiag", x, y, 0, ""),
                 {Lump_Slicestar})
    [] v \in 22..24 ->
         Cascade(v, 24, 23, g, Call("CK5_SpawnSlice", x, y, 0, "CD_east"),
                 {Lump_Slicestar})
    [] v = 25 ->
         SetScrollBlock(g, x, y, TRUE)
    [] v = 26 -> CK5_MapTele(x, y, g)
    [] v \in 27..30 ->
         Spawn1(g, Call("CK_SpawnAxisPlatform", x, y, v - 27, "false"),
                {Lump_RedPlat})
    [] v = 32 ->
         Spawn1(g, Call("CK_SpawnFallPlat", x, y, 0, ""), {Lump_RedPlat})
    [] v \in 33..35 ->
         IF ReachesStand(v, g.difficulty)
           THEN Spawn1(g, Call("CK_SpawnStandPlatform", x, y, 0, ""),
                       {Lump_RedPlat})
           ELSE NoEffect(g)
    [] v \in 36..39 ->
         Spawn1(g, Call("CK_SpawnGoPlat", x, y, v - 36, "false"), {Lump_RedPlat})
    [] v = 40 ->
         Spawn1(g, Call("CK_SneakPlatSpawn", x, y, 0, ""), {Lump_RedPlat})
    [] v = 41 -> CK5_Fuse(x, y, g)
    [] v \in 42..44 ->
         Cascade(v, 44, 43, g, Call("CK5_SpawnAmpton", x, y, 0, ""), {Lump_Ampton})
    [] v \in {45, 49, 53} ->
         Cascade(v, 53, 49, g, Call("CK_TurretSpawn", x, y, 0, ""), {Lump_PinkShot})
    [] v \in {46, 50, 54} ->
         Cascade(v, 54, 50, g, Call("CK_TurretSpawn", x, y, 1, ""), {Lump_PinkShot})
    [] v \in {47, 51, 55} ->
         Cascade(v, 55, 51, g, Call("CK_TurretSpawn", x, y, 2, ""), {Lump_PinkShot})
    [] v \in {48, 52, 56} ->
         Cascade(v, 56, 52, g, Call("CK_TurretSpawn", x, y, 3, ""), {Lump_PinkShot})
    [] v = 69 /\ g.numShots >= 5 -> NoEffect(g)
    [] v \in 57..68 \/ (v = 69 /\ ~(g.numShots >= 5)) ->
         Spawn1(g, Call("CK_SpawnItem", x, y, ItemValue(v) - 57, ""),
                {ck5_itemLumps[(ItemValue(v) - 57) + 1]})
    [] v = 70 ->
         Spawn1(g, Call("CK_SpawnItem", x, y, v - 58, ""), {Lump_Keycard})
    [] v \in 71..73 ->
         Cascade(v, 73, 72, g, Call("CK5_SpawnVolte", x, y, 0, ""), {Lump_VolteFace})
    [] v \in 74..76 ->
         Cascade(v, 76, 75, g, Call("CK5_SpawnShelly", x, y, 0, ""), {Lump_Shelley})
    [] v \in 77..79 ->
         Cascade(v, 79, 78, g, Call("CK5_SpawnSpindred", x, y, 0, ""),
                 {Lump_Spindred})
    [] v \in 80..83 ->
         Spawn1(g, Call("CK_SpawnGoPlat", x, y, v - 80, "true"), {Lump_PurplePlat})
    [] v \in 84..87 ->
         Spawn1(g, Call("CK_SpawnAxisPlatform", x, y, v - 84, "true"),
                {Lump_PurplePlat})
    [] v \in 88..90 ->
         Cascade(v, 90, 89, g, Call("CK5_SpawnMaster", x, y, 0, ""),
                 {Lump_ShikadiMaster})
    [] v \in 99..101 ->
         Cascade(v, 101, 100, g, Call("CK5_SpawnShikadi", x, y, 0, ""),
                 {Lump_Shikadi})
    [] v \in 102..104 ->
         Cascade(v, 104, 103, g, Call("CK5_SpawnShocksund", x, y, 0, ""),
                 {Lump_Shocksund})
    [] v \in 105..107 ->
         Cascade(v, 107, 106, g, Call("CK5_SpawnSphereful", x, y, 0, ""),
                 {Lump_Sphereful})
    [] v = 124 ->
         Spawn1(g, Call("CK5_SpawnKorath", x, y, 0, ""), {Lump_Korath})
    [] v = 125 ->
         [NoEffect(g) EXCEPT !.marks = {Lump_Teleporter}]
    [] OTHER -> CK5_Default(v, x, y, g)

(* -------------------- CK6_ScanInfoLayer: the switch -------------------- *)
CK6_Default(v, x, y, g) == NoEffect(g)

CK6_Case(v, x, y, g) ==
  CASE v \in {1, 2} ->
         [NoEffect(g) EXCEPT
            !.spawns = <<Call("CK_SpawnKeen", x, y, IF v = 1 THEN 1 ELSE -1, ""),
                         CallVoid("CK_DemoSignSpawn")>>,
            !.direct = {175},
            !.marks = {Lump_Keen}]
    [] v = 3 ->
         [NoEffect(g) EXCEPT
            !.spawns = <<CallVoid("CK_DemoSignSpawn"),
                         Call("CK_SpawnMapKeen", x, y, 0, "")>>,
            !.direct = {175},
            !.marks = {Lump_Mapkeen}]
    [] v \in 4..6 ->
         Cascade(v, 6, 5, g, Call("CK6_SpawnBloog", x, y, 0, ""), {Lump_Bloog})
    [] v \in 7..14 ->
         Spawn1(g, Call("CK6_SpawnBlooglet", x, y, v - 7, ""),
                {Lump_BloogletR + ((v - 7) % 4)})
    [] v \in 15..16 ->
         Spawn1(g, Call("CK6_SpawnMapCliff", x, y, v - 15, ""), {})
    [] v = 24 ->
         Spawn1(g, Call("CK6_SpawnMolly", x, y, 0, ""), {Lump_Molly})
    [] v \in 18..20 ->
         Cascade(v, 20, 19, g, Call("CK6_SpawnFleex", x, y, 0, ""), {Lump_Fleex})
    [] v = 25 ->
         SetScrollBlock(g, x, y, TRUE)
    [] v = 26 ->
         SetScrollBlock(g, x, y, FALSE)
    [] v \in 27..30 ->
         Spawn1(g, Call("CK_SpawnAxisPlatform", x, y, v - 27, "false"),
                {Lump_Platform})
    [] v = 32 ->
         Spawn1(g, Call("CK_SpawnFallPlat", x, y, 0, ""), {Lump_Platform})
    [] v \in 33..35 ->
         IF ReachesStand(v, g.difficulty)
           THEN Spawn1(g, Call("CK_SpawnStandPlatform", x, y, 0, ""),
                       {Lump_Platform})
           ELSE NoEffect(g)
    [] v \in 36..39 ->
         Spawn1(g, Call("CK_SpawnGoPlat", x, y, v - 36, "false"),
                {Lump_Platform, Lump_PlatBip})
    [] v = 40 ->
         Spawn1(g, Call("CK_SneakPlatSpawn", x, y, 0, ""), {Lump_Platform})
    [] v \in 41..43 ->
         Cascade(v, 43, 42, g, Call("CK6_SpawnBobba", x, y, 0, ""), {Lump_Bobba})
    [] v \in 44..45 ->
         Spawn1(g, Call("CK6_SpawnSatelliteLoading", x, y, v - 44, ""), {})
    [] v \in 47..49 ->
         Cascade(v, 49, 48, g, Call("CK6_SpawnNospike", x, y, 0, ""),
                 {Lump_Nospike})
    [] v \in 50..52 ->
         Cascade(v, 52, 51, g, Call("CK6_SpawnGik", x, y, 0, ""), {Lump_Gik})
    [] v \in 53..56 ->
         Spawn1(g, Call("CK_TurretSpawn", x, y, v - 53, ""), {Lump_Turret})
    [] v = 69 /\ g.numShots >= 5 -> NoEffect(g)
    [] v \in 57..68 \/ (v = 69 /\ ~(g.numShots >= 5)) ->
         Spawn1(g, Call("CK_SpawnItem", x, y, ItemValue(v) - 57, ""),
                {ck6_itemLumps[(ItemValue(v) - 57) + 1]})
    [] v \in 70..72 ->
         Cascade(v, 72, 71, g, Call("CK6_SpawnOrbatrix", x, y, 0, ""),
                 {Lump_Orbatrix})
    [] v \in 73..75 ->
         Cascade(v, 75, 74, g, Call("CK6_SpawnBipship", x, y, 0, ""),
                 {Lump_Bip, Lump_PlatBip, Lump_Bipship})
    [] v \in 76..78 ->
         Cascade(v, 78, 77, g, Call("CK6_SpawnFlect", x, y, 0, ""), {Lump_Flect})
    [] v \in 79..81 ->
         Cascade(v, 81, 80, g, Call("CK6_SpawnBlorb", x, y, 0, ""), {Lump_Blorb})
    [] v \in 82..84 ->
         Cascade(v, 84, 83, g, Call("CK6_SpawnCeilick", x, y, 0, ""),
                 {Lump_Ceilick})
    [] v \in 85..87 ->
         Cascade(v, 87, 86, g, Call("CK6_SpawnBloogguard", x, y, 0, ""),
                 {Lump_Bloogguard})
    [] v = 88 -> Spawn1(g, Call("CK6_SpawnGrabbiter", x, y, 0, ""), {})
    [] v = 89 -> Spawn1(g, Call("CK6_SpawnSatellite", x, y, 0, ""), {})
    [] v = 99 -> Spawn1(g, Call("CK6_SpawnRope", x, y, 0, ""), {Lump_Rope})
    [] v = 100 ->
         Spawn1(g, Call("CK6_SpawnSandwich", x, y, 0, ""), {Lump_Sandwich})
    [] v = 101 ->
         Spawn1(g, Call("CK6_SpawnPasscard", x, y, 0, ""), {Lump_Passcard})
    [] v \in 102..104 ->
         Cascade(v, 104, 103, g, Call("CK6_SpawnBabobba", x, y, 0, ""),
                 {Lump_Babobba})
    [] v = 105 -> Spawn1(g, Call("CK6_SpawnRocket", x, y, v - 105, ""), {})
    [] OTHER -> CK6_Default(v, x, y, g)

(* ------------------------------- state --------------------------------- *)
VARIABLES
  episode,          \* ck_currentEpisode: "CK5" or "CK6"
  difficulty,       \* ck_gameState.difficulty
  currentLevel,     \* ck_gameState.currentLevel
  levelState,       \* ck_gameState.levelState
  numShots,         \* ck_gameState.numShots
  fusesRemaining,   \* ck_gameState.ep.ck5.fusesRemaining
  levelsDone,       \* ck_gameState.levelsDone, as the set of done levels
  ck5_lumpsNeeded,  \* the set of i with ck5_lumpsNeeded[i] true
  ck6_lumpsNeeded,  \* the set of i with ck6_lumpsNeeded[i] true
  codes,            \* the info values the game's level data uses
  info,             \* info plane of the loaded level, row-major
  objs,             \* live object list, ck_keenObj first
  objsAtPass,       \* the list as the deactivation loop found it
  tileLog,          \* per dispatched tile: value and effect, in scan order
  scanPhases,       \* the passes of the last scan, in the order they ran
  chunkReq,         \* chunk ids handed to CA_MarkGrChunk / CA_CacheGrChunk
  teleCalls,        \* CK5_Open/CloseMapTeleporter calls of the scan
  pc,               \* "idle", "loaded", "scanned"
  keenDir,          \* file names in fs_keenPath
  omniDir,          \* file names in fs_omniPath
  egaGraphSize,     \* size of EGAGRAPH.CK6 in fs_keenPath
  ck6_episode,      \* "NULL", "ck6v14e_episode" or "ck6v15e_episode"
  ret               \* last result of CKx_IsPresent: [fn, value] or "none"

gameVars ==
  <<episode, difficulty, currentLevel, levelState, numShots, fusesRemaining,
    levelsDone, ck5_lumpsNeeded, ck6_lumpsNeeded, codes, info, objs,
    objsAtPass, tileLog, scanPhases, chunkReq, teleCalls, pc>>

fsVars == <<keenDir, omniDir, egaGraphSize>>

(* The map planes the map-state mutators work on, and the record of the   *)
(* CK6_ToggleBigSwitch calls made on them.                                 *)
VARIABLES
  mapFg,            \* foreground plane (plane 1), row-major from index 1
  mapInfo,          \* info plane (plane 2), row-major from index 1
  mapW,             \* CA_GetMapWidth()
  swObj,            \* clipRects of the switch object: tileX1, tileY1, tileY2
  swPast,           \* per finished call: the planes before it, dir, its log
  swStatus,         \* "ready", "fault" or "stray"
  telePast          \* per teleporter call: its name, tileX, tileY, planes before

mapVars == <<mapFg, mapInfo, mapW, swObj, swPast, swStatus, telePast>>

(* CK5_ExplodeGalaxy: where the sequence stands, the stars of the chunk    *)
(* EXTERN_GALAXY, the video buffer and the keyboard.                       *)
VARIABLES
  galPc,            \* position in CK5_ExplodeGalaxy
  galI,             \* the loop counter i
  lastScan,         \* IN_GetLastScan()
  galX, galY,       \* info->x, info->y
  galDX, galDY,     \* info->dx, info->dy
  galPrevX,         \* info->x before the last CK_GalExplodeUpdateCoords
  galPrevY,         \* info->y before the last CK_GalExplodeUpdateCoords
  galPlotted,       \* the stars the last update called VH_Plot for
  galScreen,        \* the pixels set in the video buffer
  galPal,           \* palette entries 7 and 8
  galFrames,        \* CK_GalExplodeUpdateCoords calls so far
  galKeySeen,       \* a check has seen a key
  galTics,          \* SD_GetTimeCount() - SD_GetLastTimeCount()
  galOps            \* the steps made since a check saw a key

(* The object pool, the last call made on it, and whether it is intact.    *)
VARIABLES
  pool,             \* per slot: a live object with its fields, or free
  poolLast,         \* the last call: its arguments, handles, stores, result
  poolStatus        \* "ready", "fault" or "stray"

poolVars == <<pool, poolLast, poolStatus>>

galVars ==
  <<galPc, galI, lastScan, galX, galY, galDX, galDY, galPrevX, galPrevY,
    galPlotted, galScreen, galPal, galFrames, galKeySeen, galTics, galOps>>

(* Every variable outside the scanners and the presence checks.            *)
extVars == <<mapVars, galVars, poolVars>>

vars == <<gameVars, fsVars, ck6_episode, ret, extVars>>

(* What the map mutators, the end sequence and the spawners leave alone.    *)
nonMapVars == <<gameVars, fsVars, ck6_episode, ret, galVars, poolVars>>

nonGalVars == <<gameVars, fsVars, ck6_episode, ret, mapVars, poolVars>>

nonPoolVars == <<gameVars, fsVars, ck6_episode, ret, mapVars, galVars>>

(* ---------------------------- input domains ---------------------------- *)
InfoValues == (0 .. MaxInfoValue) \cup {200}

(* Level data uses the empty value and one object code, or the two map     *)
(* codes 3 and 26 together.                                                *)
CodeSets == {{0, v} : v \in InfoValues} \cup {{0, 3, 26}}

(* A level's info plane, tile (x, y) at index y * MapW + x + 1: the object *)
(* tiles come first in scan order, the empty tiles after them; the world   *)
(* map has one start tile and one teleport tile at most.                   *)
Planes(cs) ==
  {p \in [1 .. (MapW * MapH) -> cs] :
     /\ \A i \in 1 .. (MapW * MapH - 1) : p[i] = 0 => p[i + 1] = 0
     /\ Cardinality(cs) > 2 =>
          \A i, j \in 1 .. (MapW * MapH) :
            (i # j /\ p[i] # 0) => p[i] # p[j]}

(* What gameplay leaves in ck_gameState when a level with the codes cs is  *)
(* loaded.  Level 0 is the world map.  Level 12 is told from the other    *)
(* levels by code 41 only, the ammo count is read by code 69 only, the     *)
(* level state by the map codes 3 and 26 only, and the finished fuse       *)
(* levels by the teleporter gates of the world map only.                   *)
ScanConfigs(cs) ==
  {[level |-> l, shots |-> 5, ls |-> "LS_InLevel", done |-> {}] :
     l \in (IF 41 \in cs THEN {0, 1, 12} ELSE {0, 1})}
  \cup
  (IF 69 \in cs
     THEN {[level |-> 1, shots |-> 4, ls |-> "LS_InLevel", done |-> {}]}
     ELSE {})
  \cup
  (IF cs \cap {3, 26} # {}
     THEN {[level |-> 0, shots |-> 5, ls |-> "LS_InLevel", done |-> dn] :
             dn \in {{4, 6, 8}, {4, 6, 8, 10}}}
          \cup
          {[level |-> 0, shots |-> 5, ls |-> "LS_TeleportToKorath",
            done |-> {}]}
     ELSE {})

(* Tile rows a Keen spawner may put ck_keenObj on.                         *)
KeenRows == {38, 39, 40, 74, 75, 100, 101}

(* ------------------------- the object registry ------------------------- *)
KeenSpawners == {"CK_SpawnKeen", "CK_SpawnMapKeen", "CK5_MapKeenTeleSpawn"}

KeenObj0 == [kind |-> "keen", active |-> "OBJ_INACTIVE", posY |-> 0]

(* A Keen spawner fills ck_keenObj; any other spawner takes a new object   *)
(* and links it at the tail.  a is the activity state the spawner sets,    *)
(* row the tile row Keen ends on.                                          *)
ApplySpawn(os, c, a, row) ==
  IF c.fn \in KeenSpawners
    THEN [os EXCEPT ![1] = [kind |-> "keen", active |-> a, posY |-> row * 256]]
    ELSE Append(os, [kind |-> c.fn, active |-> a, posY |-> 0])

RECURSIVE ApplySpawns(_, _, _, _)
ApplySpawns(os, cs, a, row) ==
  IF cs = <<>> THEN os
  ELSE ApplySpawns(ApplySpawn(os, Head(cs), a, row), Tail(cs), a, row)

(* What the spawners of one scan may choose: an activity state when any   *)
(* spawner runs, a tile row for Keen when a Keen spawner runs.             *)
SpawnActivities(cs) == IF cs = <<>> THEN {"OBJ_INACTIVE"} ELSE ActiveStates

(* Keen's row is read by the teleporter gates of the CK5 world map only.   *)
SpawnRows(ep, level, cs) ==
  IF ep = "CK5" /\ level = 0
     /\ \E i \in 1 .. Len(cs) : cs[i].fn \in KeenSpawners
    THEN KeenRows ELSE {0}

(* for (obj = ck_keenObj; obj != NULL; obj = obj->next)                    *)
(*   if (obj->active != OBJ_ALWAYS_ACTIVE) obj->active = OBJ_INACTIVE;     *)
Deactivate_FromSecond(os) ==
  [i \in 1 .. Len(os) |->
     IF i > 1 /\ os[i].active # "OBJ_ALWAYS_ACTIVE"
       THEN [os[i] EXCEPT !.active = "OBJ_INACTIVE"] ELSE os[i]]

Deactivate(os) ==
  [i \in 1 .. Len(os) |->
     IF os[i].active # "OBJ_ALWAYS_ACTIVE"
       THEN [os[i] EXCEPT !.active = "OBJ_INACTIVE"] ELSE os[i]]

(* ------------------------------ lump pass ------------------------------ *)
(* for (j = starts[i]; j <= ends[i]; j++) request(j)                       *)
LumpChunks_ExclusiveEnd(starts, ends, i) ==
  [j \in 1 .. (ends[i + 1] - starts[i + 1]) |-> starts[i + 1] + j - 1]

LumpChunks(starts, ends, i) ==
  [j \in 1 .. (ends[i + 1] - starts[i + 1] + 1) |-> starts[i + 1] + j - 1]

(* if (lumpsNeeded[i]) ...                                                 *)
LumpRequests_Unconditional(needed, starts, ends, i) ==
  LumpChunks(starts, ends, i)

LumpRequests(needed, starts, ends, i) ==
  IF i \in needed THEN LumpChunks(starts, ends, i) ELSE <<>>

(* for (i = 0; i < MAXLUMPS; i++) ...                                      *)
RECURSIVE LumpPass(_, _, _, _, _)
LumpPass(needed, starts, ends, n, i) ==
  IF i >= n THEN <<>>
  ELSE LumpRequests(needed, starts, ends, i)
         \o LumpPass(needed, starts, ends, n, i + 1)

(* ----------------------- the scan over the plane ----------------------- *)
TileEffect(ep, v, x, y, g) ==
  IF ep = "CK5" THEN CK5_Case(v, x, y, g) ELSE CK6_Case(v, x, y, g)

RECURSIVE ScanTiles_ColumnMajor(_, _, _, _, _)
ScanTiles_ColumnMajor(ep, plane, i, g, acc) ==
  IF i > Len(plane) THEN acc
  ELSE
    LET x == (i - 1) \div MapH
        y == (i - 1) % MapH
        v == plane[y * MapW + x + 1]
        e == TileEffect(ep, v, x, y, [g EXCEPT !.fusesRemaining = acc.fuses])
    IN ScanTiles_ColumnMajor(ep, plane, i + 1, g,
                 [fuses |-> e.fuses,
                  needed |-> acc.needed \cup e.marks,
                  log |-> Append(acc.log,
                                 [x |-> x, y |-> y, v |-> v,
                                  before |-> acc.fuses, eff |-> e])])

(* The scan with a flag array that holds the last tile's lumps only.       *)
RECURSIVE ScanTiles_ForgetsFlags(_, _, _, _, _)
ScanTiles_ForgetsFlags(ep, plane, i, g, acc) ==
  IF i > Len(plane) THEN acc
  ELSE
    LET x == (i - 1) % MapW
        y == (i - 1) \div MapW
        v == plane[i]
        e == TileEffect(ep, v, x, y, [g EXCEPT !.fusesRemaining = acc.fuses])
    IN ScanTiles_ForgetsFlags(ep, plane, i + 1, g,
                 [fuses |-> e.fuses,
                  needed |-> e.marks,
                  log |-> Append(acc.log,
                                 [x |-> x, y |-> y, v |-> v,
                                  before |-> acc.fuses, eff |-> e])])

(* for (y = 0; y < mapH; ++y) for (x = 0; x < mapW; ++x) switch (...)      *)
(* acc carries fusesRemaining, the lumps flagged and the log so far.       *)
RECURSIVE ScanTiles(_, _, _, _, _)
ScanTiles(ep, plane, i, g, acc) ==
  IF i > Len(plane) THEN acc
  ELSE
    LET x == (i - 1) % MapW
        y == (i - 1) \div MapW
        v == plane[i]
        e == TileEffect(ep, v, x, y, [g EXCEPT !.fusesRemaining = acc.fuses])
    IN ScanTiles(ep, plane, i + 1, g,
                 [fuses |-> e.fuses,
                  needed |-> acc.needed \cup e.marks,
                  log |-> Append(acc.log,
                                 [x |-> x, y |-> y, v |-> v,
                                  before |-> acc.fuses, eff |-> e])])

(* The three loops of a scanner in the order of its text: the tiles, the   *)
(* object list, the lump table; n counts what each loop went over.         *)
ScanPhases(log, os, reqs) ==
  <<[phase |-> "tiles", n |-> Len(log)],
    [phase |-> "deactivate", n |-> Len(os)],
    [phase |-> "lumps", n |-> Len(reqs)]>>

RECURSIVE AllSpawns(_)
AllSpawns(log) ==
  IF log = <<>> THEN <<>> ELSE Head(log).eff.spawns \o AllSpawns(Tail(log))

(* The world-map gates at the end of CK5_ScanInfoLayer.                    *)
TeleCall(fn, x, y) == [fn |-> fn, x |-> x, y |-> y]

(* The gates with the row limits taken inclusively.                        *)
CK5_MapGates_InclusiveRows(level, posY, done) ==
  IF level = 0
    THEN
      LET keenYTilePos == posY \div 256 IN
        (IF keenYTilePos <= 75 \/ keenYTilePos >= 100
           THEN <<TeleCall("CK5_CloseMapTeleporter", 24, 76),
                  TeleCall("CK5_OpenMapTeleporter", 22, 55)>>
           ELSE <<>>)
        \o
        (IF 4 \in done /\ 6 \in done /\ 8 \in done /\ 10 \in done
            /\ keenYTilePos >= 39
           THEN <<TeleCall("CK5_OpenMapTeleporter", 26, 55)>>
           ELSE <<>>)
        \o
        (IF keenYTilePos <= 39 \/ keenYTilePos >= 100
           THEN <<TeleCall("CK5_OpenMapTeleporter", 24, 30)>>
           ELSE <<>>)
    ELSE <<>>

CK5_MapGates(level, posY, done) ==
  IF level = 0
    THEN
      LET keenYTilePos == posY \div 256 IN
        (IF keenYTilePos < 75 \/ keenYTilePos > 100
           THEN <<TeleCall("CK5_CloseMapTeleporter", 24, 76),
                  TeleCall("CK5_OpenMapTeleporter", 22, 55)>>
           ELSE <<>>)
        \o
        (IF 4 \in done /\ 6 \in done /\ 8 \in done /\ 10 \in done
            /\ keenYTilePos > 39
           THEN <<TeleCall("CK5_OpenMapTeleporter", 26, 55)>>
           ELSE <<>>)
        \o
        (IF keenYTilePos < 39 \/ keenYTilePos > 100
           THEN <<TeleCall("CK5_OpenMapTeleporter", 24, 30)>>
           ELSE <<>>)
    ELSE <<>>

GameState ==
  [difficulty |-> difficulty, levelState |-> levelState,
   currentLevel |-> currentLevel, numShots |-> numShots,
   fusesRemaining |-> fusesRemaining]

(* ------------------------------- actions ------------------------------- *)
(* A level is loaded: its info plane is in memory, the object list holds   *)
(* the cleared ck_keenObj only.                                            *)
LoadLevel ==
  /\ pc = "idle"
  /\ \E plane \in Planes(codes), cfg \in ScanConfigs(codes) :
       /\ info' = plane
       /\ currentLevel' = cfg.level
       /\ numShots' = cfg.shots
       /\ levelState' = cfg.ls
       /\ levelsDone' = cfg.done
  /\ objs' = <<KeenObj0>>
  /\ pc' = "loaded"
  /\ UNCHANGED <<episode, difficulty, fusesRemaining, ck5_lumpsNeeded,
                 ck6_lumpsNeeded, codes, objsAtPass, tileLog, scanPhases,
                 chunkReq,
                 teleCalls, fsVars, ck6_episode, ret>>
  /\ UNCHANGED extVars

(* The level is left: its objects and its map are gone, ck_gameState and   *)
(* the lump flags stay.                                                    *)
LeaveLevel ==
  /\ pc = "scanned"
  /\ info' = <<>>
  /\ objs' = <<KeenObj0>>
  /\ objsAtPass' = <<>>
  /\ tileLog' = <<>>
  /\ scanPhases' = <<>>
  /\ chunkReq' = <<>>
  /\ teleCalls' = <<>>
  /\ pc' = "idle"
  /\ UNCHANGED <<episode, difficulty, currentLevel, levelState, numShots,
                 fusesRemaining, levelsDone, ck5_lumpsNeeded, ck6_lumpsNeeded,
                 codes, fsVars, ck6_episode, ret>>
  /\ UNCHANGED extVars

(* The scan that starts with the fuse count the game state holds.          *)
CK5_ScanStart_KeepsFuses(g) == g

(* ck_gameState.ep.ck5.fusesRemaining = 0; before the loops.               *)
CK5_ScanStart(g) == [g EXCEPT !.fusesRemaining = 0]

CK5_ScanInfoLayer ==
  /\ pc = "loaded"
  /\ episode = "CK5"
  /\ \E r \in {ScanTiles("CK5", info, 1, CK5_ScanStart(GameState),
              [fuses |-> CK5_ScanStart(GameState).fusesRemaining,
               needed |-> ck5_lumpsNeeded, log |-> <<>>])} :
       /\ fusesRemaining' = r.fuses
       /\ ck5_lumpsNeeded' = r.needed
       /\ tileLog' = r.log
       /\ chunkReq' = LumpPass(r.needed, ck5_lumpStarts, ck5_lumpEnds,
                               CK5_MAXLUMPS, 0)
       /\ \E sp \in {AllSpawns(r.log)} :
            \E a \in SpawnActivities(sp),
               row \in SpawnRows("CK5", currentLevel, sp) :
              /\ objsAtPass' = ApplySpawns(objs, sp, a, row)
              /\ objs' = Deactivate(objsAtPass')
       /\ scanPhases' = ScanPhases(tileLog', objsAtPass', chunkReq')
       /\ teleCalls' = CK5_MapGates(currentLevel, objs'[1].posY, levelsDone)
  /\ pc' = "scanned"
  /\ UNCHANGED <<episode, difficulty, currentLevel, levelState, numShots,
                 levelsDone, ck6_lumpsNeeded, codes, info, fsVars,
                 ck6_episode, ret>>
  /\ UNCHANGED extVars

CK6_ScanInfoLayer ==
  /\ pc = "loaded"
  /\ episode = "CK6"
  /\ \E r \in {ScanTiles("CK6", info, 1, GameState,
              [fuses |-> fusesRemaining, needed |-> ck6_lumpsNeeded,
               log |-> <<>>])} :
       /\ fusesRemaining' = r.fuses
       /\ ck6_lumpsNeeded' = r.needed
       /\ tileLog' = r.log
       /\ chunkReq' = LumpPass(r.needed, ck6_lumpStarts, ck6_lumpEnds,
                               CK6_MAXLUMPS, 0)
       /\ \E sp \in {AllSpawns(r.log)} :
            \E a \in SpawnActivities(sp),
               row \in SpawnRows("CK6", currentLevel, sp) :
              /\ objsAtPass' = ApplySpawns(objs, sp, a, row)
              /\ objs' = Deactivate(objsAtPass')
       /\ scanPhases' = ScanPhases(tileLog', objsAtPass', chunkReq')
       /\ teleCalls' = <<>>
  /\ pc' = "scanned"
  /\ UNCHANGED <<episode, difficulty, currentLevel, levelState, numShots,
                 levelsDone, ck5_lumpsNeeded, codes, info, fsVars,
                 ck6_episode, ret>>
  /\ UNCHANGED extVars

(* --------------------------- presence checks --------------------------- *)
(* A file is <<base name, extension>>.                                     *)
UserBases == {"EGAGRAPH", "GAMEMAPS", "AUDIO"}

OmniBases ==
  {"EGAHEAD", "EGADICT", "GFXINFOE", "MAPHEAD", "AUDIODCT", "AUDIOHHD",
   "AUDINFOE", "ACTION"}

UserFiles(ext) == {<<b, ext>> : b \in UserBases}
OmniFiles(ext) == {<<b, ext>> : b \in OmniBases}

(* FSL_OpenFileInDirCaseInsensitive returns a file iff the directory has   *)
(* an entry of that name.                                                  *)
FS_OpenKeenFile(kd, f) == f \in kd

(* Look in the Keen directory first, then in the Omnispeak directory.      *)
FS_OpenOmniFile_OmniOnly(kd, od, f) == f \in od

FS_OpenOmniFile(kd, od, f) == IF f \in kd THEN TRUE ELSE f \in od

FS_IsKeenFilePresent(kd, f) == FS_OpenKeenFile(kd, f)

FS_IsOmniFilePresent(kd, od, f) == FS_OpenOmniFile(kd, od, f)

(* The three checks of the user-provided files, in source order.           *)
UserFilesPresent(kd, ext) ==
  /\ FS_IsKeenFilePresent(kd, <<"EGAGRAPH", ext>>)
  /\ FS_IsKeenFilePresent(kd, <<"GAMEMAPS", ext>>)
  /\ FS_IsKeenFilePresent(kd, <<"AUDIO", ext>>)

(* The eight checks of the Omnispeak-provided files, in source order.      *)
OmniFilesPresent(kd, od, ext) ==
  /\ FS_IsOmniFilePresent(kd, od, <<"EGAHEAD", ext>>)
  /\ FS_IsOmniFilePresent(kd, od, <<"EGADICT", ext>>)
  /\ FS_IsOmniFilePresent(kd, od, <<"GFXINFOE", ext>>)
  /\ FS_IsOmniFilePresent(kd, od, <<"MAPHEAD", ext>>)
  /\ FS_IsOmniFilePresent(kd, od, <<"AUDIODCT", ext>>)
  /\ FS_IsOmniFilePresent(kd, od, <<"AUDIOHHD", ext>>)
  /\ FS_IsOmniFilePresent(kd, od, <<"AUDINFOE", ext>>)
  /\ FS_IsOmniFilePresent(kd, od, <<"ACTION", ext>>)

CK5_IsPresent ==
  /\ ret' = [fn |-> "CK5_IsPresent",
             value |-> IF ~UserFilesPresent(keenDir, "CK5") THEN FALSE
                       ELSE OmniFilesPresent(keenDir, omniDir, "CK5")]
  /\ UNCHANGED <<gameVars, fsVars, ck6_episode>>
  /\ UNCHANGED extVars

(* Between the user-file checks and the Omnispeak-file checks the version  *)
(* of the episode is chosen from the size of EGAGRAPH.CK6.                 *)
CK6_IsPresent ==
  /\ IF ~UserFilesPresent(keenDir, "CK6")
       THEN /\ ret' = [fn |-> "CK6_IsPresent", value |-> FALSE]
            /\ ck6_episode' = ck6_episode
       ELSE /\ ck6_episode' = IF egaGraphSize = 464662
                                THEN "ck6v15e_episode" ELSE "ck6v14e_episode"
            /\ ret' = [fn |-> "CK6_IsPresent",
                       value |-> OmniFilesPresent(keenDir, omniDir, "CK6")]
  /\ UNCHANGED <<gameVars, fsVars>>
  /\ UNCHANGED extVars

(* --------------------------- specifications ---------------------------- *)
(* A game of one episode at one difficulty, all files in place.            *)
(* ---------------------- CK6_ToggleBigSwitch: data ---------------------- *)
(* Tile numbers of the level's tile set and their tile info.  A tile's     *)
(* animation offset leads to its next frame.                               *)
(*   0        plain, no animation                                          *)
(*   1, 2     the two frames of a switch                                   *)
(*   3, 4     a bridge tile and its retracted frame, a two-frame cycle     *)
(*   5, 6, 7  a bridge tile with a three-frame cycle                       *)
(*   8, 9     a bridge tile whose next frame has no animation              *)
(*   10 .. 12 zapper switched on: start, beam, end                         *)
(*   13 .. 15 zapper switched off: start, gap, end                         *)
Tiles == 0 .. 15

TI_ForeAnimTile(t) ==
  CASE t \in {1, 3, 5, 6, 8} -> 1
    [] t \in {2, 4} -> -1
    [] t = 7 -> -2
    [] OTHER -> 0

(* TI_ForeMisc: the flag and bit 7 of the misc byte.                       *)
TI_ForeMisc(t) ==
  CASE t \in {3, 4, 5, 6, 7, 8} -> [flag |-> "MISCFLAG_BRIDGE", top |-> FALSE]
    [] t = 9 -> [flag |-> "MISCFLAG_NONE", top |-> FALSE]
    [] t = 10 -> [flag |-> "MISCFLAG_ACTIVEZAPPER", top |-> TRUE]
    [] t = 11 -> [flag |-> "MISCFLAG_DEADLY", top |-> FALSE]
    [] t \in {13, 15} -> [flag |-> "MISCFLAG_INACTIVEZAPPER", top |-> FALSE]
    [] OTHER -> [flag |-> "MISCFLAG_NONE", top |-> FALSE]

(* uint16_t arithmetic.                                                    *)
U16(n) == n % 65536

(* CA_TilePtrAtPos(x, y, plane): the plane is one row after the other.     *)
PlaneIndex(x, y, w) == y * w + x + 1

InPlane(plane, i) == i >= 1 /\ i <= Len(plane)

(* while (!*infoTile) { tx++; infoTile++; }  from index p: the index of    *)
(* the first non-zero value at or after p, or 0 when the plane has none.   *)
InfoSearch_StopAtStart(plane, p) ==
  IF ~InPlane(plane, p) THEN 0 ELSE p

RECURSIVE InfoSearch(_, _)
InfoSearch(plane, p) ==
  IF ~InPlane(plane, p) THEN 0
  ELSE IF plane[p] # 0 THEN p
  ELSE InfoSearch(plane, p + 1)

(* RF_ReplaceTiles(tiles, plane, x, y, w, h): tiles[j * w + i] goes to     *)
(* (x + i, y + j); writes is the sequence of <<index, tile>> it makes.     *)
RECURSIVE WritePlane(_, _)
WritePlane(plane, writes) ==
  IF writes = <<>> THEN plane
  ELSE WritePlane([plane EXCEPT ![Head(writes)[1]] = Head(writes)[2]],
                  Tail(writes))

BlockWrites(tiles, x, y, w, h, mw) ==
  [k \in 1 .. (w * h) |->
     <<PlaneIndex(x + ((k - 1) % w), y + ((k - 1) \div w), mw), tiles[k]>>]

WritesInPlane(plane, writes) ==
  \A k \in 1 .. Len(writes) : InPlane(plane, writes[k][1])

(* a ^ b on unsigned values.                                               *)
RECURSIVE BitXor(_, _)
BitXor(a, b) ==
  IF a = 0 THEN b
  ELSE IF b = 0 THEN a
  ELSE (((a % 2) + (b % 2)) % 2) + 2 * BitXor(a \div 2, b \div 2)

(* The B block with its low five bits set and nothing flipped.            *)
BlockToggle_SetBits(v) == v + 31 - (v % 32)

(* "Toggle a B block": *infoTile ^= 0x1F.                                 *)
BlockToggle(v) == BitXor(v, 31)

(* The arrows turned a quarter instead of reversed.                        *)
infoPlaneInverses_Quarter == <<1, 2, 3, 0, 5, 6, 7, 4>>

(* static uint16_t infoPlaneInverses[8] = {2, 3, 0, 1, 6, 7, 4, 5};        *)
infoPlaneInverses == <<2, 3, 0, 1, 6, 7, 4, 5>>

(* TI_ForeMisc(tile) == flag, the whole byte compared.                     *)
MiscIs(t, flag) == TI_ForeMisc(t).flag = flag /\ ~TI_ForeMisc(t).top

(* The two zapper loops, from row y down column x:                         *)
(*   while (TI_ForeMisc(CA_TileAtPos(destX, destY, 1)) == MISCFLAG_DEADLY) *)
(*   while (TI_ForeMisc(CA_TileAtPos(destX, destY, 1))                     *)
(*            != MISCFLAG_INACTIVEZAPPER)                                  *)
(* each replacing the tile by mid, and the end tile written after it.      *)
(* A read or write outside the plane makes ok false.                       *)
(* The loops without the end tile written after them.                     *)
RECURSIVE ZapperColumn_NoEndTile(_, _, _, _, _, _, _)
ZapperColumn_NoEndTile(fg, w, x, y, mid, end, on) ==
  LET i == PlaneIndex(x, y, w) IN
    IF ~InPlane(fg, i) THEN [ok |-> FALSE, fg |-> fg]
    ELSE IF (on /\ MiscIs(fg[i], "MISCFLAG_DEADLY"))
            \/ (~on /\ ~MiscIs(fg[i], "MISCFLAG_INACTIVEZAPPER"))
      THEN ZapperColumn_NoEndTile([fg EXCEPT ![i] = mid], w, x, y + 1, mid,
                                  end, on)
    ELSE [ok |-> TRUE, fg |-> fg]

RECURSIVE ZapperColumn(_, _, _, _, _, _, _)
ZapperColumn(fg, w, x, y, mid, end, on) ==
  LET i == PlaneIndex(x, y, w) IN
    IF ~InPlane(fg, i) THEN [ok |-> FALSE, fg |-> fg]
    ELSE IF (on /\ MiscIs(fg[i], "MISCFLAG_DEADLY"))
            \/ (~on /\ ~MiscIs(fg[i], "MISCFLAG_INACTIVEZAPPER"))
      THEN ZapperColumn([fg EXCEPT ![i] = mid], w, x, y + 1, mid, end, on)
    ELSE [ok |-> TRUE, fg |-> [fg EXCEPT ![i] = end]]

(* for (x = ...; x < CA_GetMapWidth(); ++x) of one bridge row.             *)
RECURSIVE BridgeRow_UnsignedAnim(_, _, _, _)
BridgeRow_UnsignedAnim(fg, w, x, y) ==
  IF ~(x < w) THEN fg
  ELSE
    LET i == PlaneIndex(x, y, w)
        currentTile == fg[i]
    IN IF TI_ForeAnimTile(currentTile) = 0 THEN fg
       ELSE BridgeRow_UnsignedAnim(
              [fg EXCEPT ![i] =
                 U16(currentTile + (TI_ForeAnimTile(currentTile) % 256))],
              w, x + 1, y)

RECURSIVE BridgeRow(_, _, _, _)
BridgeRow(fg, w, x, y) ==
  IF ~(x < w) THEN fg
  ELSE
    LET i == PlaneIndex(x, y, w)
        currentTile == fg[i]
    IN IF TI_ForeAnimTile(currentTile) = 0 THEN fg
       ELSE BridgeRow(
              [fg EXCEPT ![i] = U16(currentTile + TI_ForeAnimTile(currentTile))],
              w, x + 1, y)

(* The indices one bridge row may read: x from x0 up to the map's width.   *)
BridgeRowInPlane(fg, w, x0, y) ==
  \A x \in x0 .. (w - 1) : InPlane(fg, PlaneIndex(x, y, w))

(* The column a bridge row starts in: destX - ((y == destY) ? 0 : 1).      *)
BridgeStartX(destX, destY, y) == destX - (IF y = destY THEN 0 ELSE 1)

(* "Apply the switch effect" at the destination (destX, destY), which is   *)
(* inside the planes.                                                      *)
ToggleEffect(fg, inf, w, destX, destY, log) ==
  LET d == PlaneIndex(destX, destY, w)
      miscValue == TI_ForeMisc(fg[d]).flag
      T(x) == fg[PlaneIndex(x, 0, w)]
  IN
    IF inf[d] >= 91 /\ inf[d] < 91 + 8
      THEN [ok |-> TRUE, fg |-> fg,
            info |-> [inf EXCEPT ![d] = infoPlaneInverses[inf[d] - 91 + 1] + 91],
            log |-> [log EXCEPT !.branch = "arrow"]]
    ELSE IF miscValue = "MISCFLAG_ACTIVEZAPPER"
      THEN LET z == ZapperColumn([fg EXCEPT ![d] = T(0)], w, destX, destY + 1,
                                 T(1), T(2), TRUE)
           IN [ok |-> z.ok, fg |-> z.fg, info |-> inf,
               log |-> [log EXCEPT !.branch = "activezapper"]]
    ELSE IF miscValue = "MISCFLAG_INACTIVEZAPPER"
      THEN LET z == ZapperColumn([fg EXCEPT ![d] = T(3)], w, destX, destY + 1,
                                 T(4), T(5), FALSE)
           IN [ok |-> z.ok, fg |-> z.fg, info |-> inf,
               log |-> [log EXCEPT !.branch = "inactivezapper"]]
    ELSE IF miscValue = "MISCFLAG_BRIDGE"
      THEN IF BridgeRowInPlane(fg, w, BridgeStartX(destX, destY, destY), destY)
              /\ BridgeRowInPlane(fg, w, BridgeStartX(destX, destY, destY + 1),
                                  destY + 1)
             THEN [ok |-> TRUE,
                   fg |-> BridgeRow(
                            BridgeRow(fg, w, BridgeStartX(destX, destY, destY),
                                      destY),
                            w, BridgeStartX(destX, destY, destY + 1), destY + 1),
                   info |-> inf,
                   log |-> [log EXCEPT !.branch = "bridge"]]
             ELSE [ok |-> FALSE, fg |-> fg, info |-> inf,
                   log |-> [log EXCEPT !.branch = "bridge"]]
    ELSE [ok |-> TRUE, fg |-> fg,
          info |-> [inf EXCEPT ![d] = BlockToggle(inf[d])],
          log |-> [log EXCEPT !.branch = "block"]]

(* CK6_ToggleBigSwitch(obj, dir) on the planes fg and inf of width w.     *)
(* ok is false when the call reads or writes outside the planes.           *)
ToggleBigSwitch(fg, inf, w, obj, dir) ==
  LET ty == IF dir THEN obj.tileY2 ELSE obj.tileY1 - 2
      tx0 == obj.tileX1 - 1
      start == PlaneIndex(tx0 + 1, ty + 1, w)
      found == InfoSearch(inf, start)
      log0 == [dir |-> dir, ty |-> ty, start |-> start, found |-> found,
               tx |-> tx0, destX |-> -1, destY |-> -1, branch |-> "none"]
  IN
    IF found = 0 THEN [ok |-> FALSE, fg |-> fg, info |-> inf, log |-> log0]
    ELSE
      LET tx == tx0 + (found - start)
          at(k) == PlaneIndex(tx + ((k - 1) % 2), ty + ((k - 1) \div 2), w)
          log1 == [log0 EXCEPT !.tx = tx]
      IN
        IF \E k \in 1 .. 6 : ~InPlane(fg, at(k))
          THEN [ok |-> FALSE, fg |-> fg, info |-> inf, log |-> log1]
        ELSE
          LET tile_array ==
                [k \in 1 .. 6 |-> U16(fg[at(k)] + TI_ForeAnimTile(fg[at(k)]))]
              fg1 == WritePlane(fg, BlockWrites(tile_array, tx, ty, 2, 3, w))
              r == inf[PlaneIndex(tx + 1, ty + 1, w)]
              destX == r \div 256
              destY == r % 256
              log2 == [log1 EXCEPT !.destX = destX, !.destY = destY]
          IN
            IF ~InPlane(inf, PlaneIndex(destX, destY, w))
              THEN [ok |-> FALSE, fg |-> fg1, info |-> inf, log |-> log2]
            ELSE ToggleEffect(fg1, inf, w, destX, destY, log2)

(* ------------------ CK6_ToggleBigSwitch: the level map ------------------ *)
(* A level with one big switch.  Row 0 holds the zapper templates, rows 1  *)
(* to 3 the switch, row 2 of the info plane its routing value, and rows 4  *)
(* and below what the switch works on.                                     *)
SwitchDestY == 4

SwitchDests ==
  {[kind |-> "bridge", tile |-> b, len1 |-> l1, len2 |-> l2, inf |-> 0] :
     b \in {3, 5, 8}, l1 \in {1, 2, SwitchMapW}, l2 \in 0 .. 2}
  \cup {[kind |-> "zapOn", tile |-> 0, len1 |-> l, len2 |-> 0, inf |-> 0] :
          l \in {0, 1, SwitchMapH - SwitchDestY - 1}}
  \cup {[kind |-> "zapOff", tile |-> 0, len1 |-> 0, len2 |-> 0, inf |-> 0]}
  \cup {[kind |-> "block", tile |-> 0, len1 |-> 0, len2 |-> 0, inf |-> v] :
          v \in {0, 5, 31, 68}}
  \cup {[kind |-> "arrow", tile |-> t, len1 |-> 0, len2 |-> 0, inf |-> 91 + i] :
          i \in 0 .. 7, t \in {0, 3, 10, 13}}

(* c is the column of the routing value (0: the level has none), s the     *)
(* frame the switch shows, dx the destination column, d the destination.   *)
SwitchFg(x1, c, s, dx, d) ==
  [i \in 1 .. (SwitchMapW * SwitchMapH) |->
     LET x == (i - 1) % SwitchMapW
         y == (i - 1) \div SwitchMapW
         bx == IF c = 0 THEN x1 - 1 ELSE c - 1
     IN CASE y = 0 /\ x < 6 -> <<13, 14, 15, 10, 11, 12>>[x + 1]
          [] y \in 1 .. 3 /\ x \in {bx, bx + 1} -> s
          [] d.kind = "bridge" /\ y = SwitchDestY
               /\ x >= dx /\ x < dx + d.len1 -> d.tile
          [] d.kind = "bridge" /\ y = SwitchDestY + 1
               /\ x >= dx - 1 /\ x < dx - 1 + d.len2 -> d.tile
          [] d.kind = "arrow" /\ x = dx /\ y = SwitchDestY -> d.tile
          [] d.kind = "zapOn" /\ x = dx /\ y = SwitchDestY -> 10
          [] d.kind = "zapOn" /\ x = dx
               /\ y \in (SwitchDestY + 1) .. (SwitchDestY + d.len1) -> 11
          [] d.kind = "zapOn" /\ x = dx /\ y = SwitchDestY + d.len1 + 1 -> 12
          [] d.kind = "zapOff" /\ x = dx /\ y \in SwitchDestY .. SwitchDestY + 2
               -> 13 + (y - SwitchDestY)
          [] OTHER -> 0]

SwitchInfo(c, dx, d) ==
  [i \in 1 .. (SwitchMapW * SwitchMapH) |->
     LET x == (i - 1) % SwitchMapW
         y == (i - 1) \div SwitchMapW
     IN CASE c # 0 /\ y = 2 /\ x = c -> dx * 256 + SwitchDestY
          [] y = SwitchDestY /\ x = dx -> d.inf
          [] OTHER -> 0]

(* State of the map variables while no map-state mutator is looked at.     *)
MapIdle ==
  /\ mapFg = <<>>
  /\ mapInfo = <<>>
  /\ mapW = 0
  /\ swObj = [tileX1 |-> 0, tileY1 |-> 0, tileY2 |-> 0]
  /\ swPast = <<>>
  /\ swStatus = "ready"
  /\ telePast = <<>>

(* One more call of the switch's handler.  A call that leaves the planes   *)
(* is undefined: it faults, or it goes on with what it found there.        *)
CK6_ToggleBigSwitch ==
  /\ swStatus = "ready"
  /\ Len(swPast) < MaxToggles
  /\ \E dir \in BOOLEAN :
       \E r \in {ToggleBigSwitch(mapFg, mapInfo, mapW, swObj, dir)} :
         /\ mapFg' = r.fg
         /\ mapInfo' = r.info
         /\ swStatus' \in (IF r.ok THEN {"ready"} ELSE {"fault", "stray"})
         /\ swPast' = Append(swPast,
                             [fg |-> mapFg, info |-> mapInfo, log |-> r.log,
                              ok |-> r.ok,
                              searchEnded |->
                                (r.log.found # 0 \/ swStatus' = "stray")])
  /\ UNCHANGED <<mapW, swObj, telePast>>
  /\ UNCHANGED nonMapVars

(* ------------------- CK5_ExplodeGalaxy: the end sequence ---------------- *)
(* The stars of the chunk EXTERN_GALAXY the model follows, as              *)
(* <<x, dx, y, dy>> in units of 1/0x80 pixel.                              *)
StarCases ==
  { <<1280, 128, 1280, 128>>,       \* stays on the screen
    <<40704, 256, 1280, 0>>,        \* leaves to the right after one step
    <<1280, 128, 25600, 128>>,      \* x stays inside, y is outside at once
    <<128, -256, 1280, 128>>,       \* x wraps below zero at once
    <<1280, 0, 128, -256>> }        \* y wraps below zero at once

(* The bounds of the star loop: 320 * 0x80 and 200 * 0x80.                *)
GalMaxX == 320 * 128
GalMaxY == 200 * 128

StarStep_AlwaysMove(x, dx, y, dy) ==
  [x |-> U16(x + dx), y |-> U16(y + dy),
   plot |-> U16(x + dx) <= GalMaxX /\ U16(y + dy) <= GalMaxY]

StarStep_PlotLastValid(x, dx, y, dy) ==
  IF U16(x + dx) > GalMaxX THEN [x |-> x, y |-> y, plot |-> TRUE]
  ELSE IF U16(y + dy) > GalMaxY THEN [x |-> U16(x + dx), y |-> y, plot |-> TRUE]
  ELSE [x |-> U16(x + dx), y |-> U16(y + dy), plot |-> TRUE]

(* One pass of the loop body of CK_GalExplodeUpdateCoords for one star:    *)
(* newPos is a uint16_t, and each `continue` leaves the rest of the body   *)
(* out, the plot included.                                                 *)
StarStep(x, dx, y, dy) ==
  IF U16(x + dx) > GalMaxX THEN [x |-> x, y |-> y, plot |-> FALSE]
  ELSE IF U16(y + dy) > GalMaxY THEN [x |-> U16(x + dx), y |-> y, plot |-> FALSE]
  ELSE [x |-> U16(x + dx), y |-> U16(y + dy), plot |-> TRUE]

(* VH_Plot(x / 0x80, y / 0x80, 0xF): the pixel a star is drawn at.         *)
StarPixel(x, y) == <<x \div 128, y \div 128>>

(* CK_GalExplodeUpdateCoords: the buffer is blanked, then every star is    *)
(* stepped; the stars do not read each other.                              *)
GalExplodeUpdateCoords(xs, dxs, ys, dys) ==
  LET s == [i \in DOMAIN xs |-> StarStep(xs[i], dxs[i], ys[i], dys[i])] IN
    [x |-> [i \in DOMAIN xs |-> s[i].x],
     y |-> [i \in DOMAIN xs |-> s[i].y],
     plotted |-> {i \in DOMAIN xs : s[i].plot},
     screen |-> {StarPixel(s[i].x, s[i].y) : i \in {j \in DOMAIN xs : s[j].plot}}]

(* endsplosion_pal_change[0], the colour of palette entries 7 and 8 in     *)
(* each step before the explosion.                                         *)
endsplosion_pal_change ==
  <<8, 8, 7, 15, 7, 8, 0, 8, 7, 15, 7, 8, 0, 0, 0, 0, 0, 0>>

(* The steps after the label done.                                         *)
DoneOps ==
  <<"VL_ClearScreen", "VL_SetDefaultPalette", "StartMusic", "VH_DrawBitmap",
    "VL_Present">>

WaitOps == <<"IN_UserInput", "StopMusic">>

GotoDone_Never(scan) == FALSE

(* A delay loop that no tick count ends.                                   *)
DelayOver_Never(tics) == FALSE

(* while (SD_GetTimeCount() - SD_GetLastTimeCount() < 4) ; is left.        *)
DelayOver(tics) == ~(tics < WaitTics)

(* if (IN_GetLastScan()) goto done;                                        *)
GotoDone(scan) == scan # 0

(* What the sequence does once a check has seen a key is recorded.         *)
GalLogged(ops) == IF galKeySeen THEN galOps \o ops ELSE galOps

GalIdle ==
  /\ galPc = "idle"
  /\ galI = 0
  /\ lastScan = 0
  /\ galX = <<>> /\ galY = <<>> /\ galDX = <<>> /\ galDY = <<>>
  /\ galPrevX = <<>> /\ galPrevY = <<>>
  /\ galPlotted = {}
  /\ galScreen = {}
  /\ galPal = 0
  /\ galFrames = 0
  /\ galKeySeen = FALSE
  /\ galTics = 0
  /\ galOps = <<>>

(* IN_PumpEvents at the head of either loop: a key may have come in.       *)
GalPumpEvents ==
  /\ galPc \in {"pal_pump", "exp_pump"}
  /\ lastScan' \in {lastScan, 57}
  /\ galPc' = (IF galPc = "pal_pump" THEN "pal_set" ELSE "exp_update1")
  /\ UNCHANGED <<galI, galX, galY, galDX, galDY, galPrevX, galPrevY,
                 galPlotted, galScreen, galPal, galFrames, galKeySeen, galOps>>
  /\ UNCHANGED galTics
  /\ UNCHANGED nonGalVars

(* One palette step of the first loop, up to VL_DelayTics.                 *)
GalPaletteStep ==
  /\ galPc = "pal_set"
  /\ galPal' = endsplosion_pal_change[galI + 1]
  /\ galOps' = GalLogged(<<"VL_SetPaletteAndBorderColor">>)
  /\ galPc' = "pal_check"
  /\ UNCHANGED <<galI, lastScan, galX, galY, galDX, galDY, galPrevX, galPrevY,
                 galPlotted, galScreen, galFrames, galKeySeen>>
  /\ UNCHANGED galTics
  /\ UNCHANGED nonGalVars

(* The check that ends each pass of either loop, and the loop's step.      *)
GalCheckKey ==
  /\ galPc \in {"pal_check", "exp_check"}
  /\ galKeySeen' = (galKeySeen \/ lastScan # 0)
  /\ IF GotoDone(lastScan)
       THEN /\ galPc' = "done"
            /\ UNCHANGED galI
       ELSE /\ galI' = galI + 1
            /\ galPc' = (IF galPc = "pal_check"
                           THEN (IF galI + 1 < PaletteSteps
                                   THEN "pal_pump" ELSE "exp_start")
                           ELSE (IF galI + 1 < ExplodeSteps
                                   THEN "exp_pump" ELSE "done"))
  /\ UNCHANGED <<lastScan, galX, galY, galDX, galDY, galPrevX, galPrevY,
                 galPlotted, galScreen, galPal, galFrames, galOps>>
  /\ UNCHANGED galTics
  /\ UNCHANGED nonGalVars

(* Between the loops: the explosion sound and a cleared screen.            *)
GalExplodeStart ==
  /\ galPc = "exp_start"
  /\ galI' = 0
  /\ galScreen' = {}
  /\ galPc' = "exp_pump"
  /\ galOps' = GalLogged(<<"SD_PlaySound", "VL_ClearScreen">>)
  /\ UNCHANGED <<lastScan, galX, galY, galDX, galDY, galPrevX, galPrevY,
                 galPlotted, galPal, galFrames, galKeySeen>>
  /\ UNCHANGED galTics
  /\ UNCHANGED nonGalVars

(* SD_SetLastTimeCount(SD_GetTimeCount()), then CK_GalExplodeUpdateCoords  *)
(* and the page flip, twice in each pass.                                  *)
GalUpdateCoords ==
  /\ galPc \in {"exp_update1", "exp_update2"}
  /\ \E r \in {GalExplodeUpdateCoords(galX, galDX, galY, galDY)} :
       /\ galX' = r.x
       /\ galY' = r.y
       /\ galPlotted' = r.plotted
       /\ galScreen' = r.screen
  /\ galPrevX' = galX
  /\ galPrevY' = galY
  /\ galFrames' = galFrames + 1
  /\ galOps' = GalLogged(<<"CK_GalExplodeUpdateCoords">>)
  /\ galTics' = 0
  /\ galPc' = (IF galPc = "exp_update1" THEN "exp_wait1" ELSE "exp_wait2")
  /\ UNCHANGED <<galI, lastScan, galDX, galDY, galPal, galKeySeen>>
  /\ UNCHANGED nonGalVars

(* The timer interrupt while the sequence is in a delay loop: one more     *)
(* tick since SD_SetLastTimeCount.                                         *)
GalTick ==
  /\ galPc \in {"exp_wait1", "exp_wait2"}
  /\ galTics < WaitTics
  /\ galTics' = galTics + 1
  /\ UNCHANGED <<galPc, galI, lastScan, galX, galY, galDX, galDY, galPrevX,
                 galPrevY, galPlotted, galScreen, galPal, galFrames,
                 galKeySeen, galOps>>
  /\ UNCHANGED nonGalVars

(* The delay loop is left.                                                 *)
GalDelayOver ==
  /\ galPc \in {"exp_wait1", "exp_wait2"}
  /\ DelayOver(galTics)
  /\ galPc' = (IF galPc = "exp_wait1" THEN "exp_update2" ELSE "exp_check")
  /\ UNCHANGED <<galI, lastScan, galX, galY, galDX, galDY, galPrevX,
                 galPrevY, galPlotted, galScreen, galPal, galFrames,
                 galKeySeen, galTics, galOps>>
  /\ UNCHANGED nonGalVars

(* done: the video is set back and the game-over picture shown.            *)
GalDone ==
  /\ galPc = "done"
  /\ galScreen' = {}
  /\ galPal' = 0
  /\ galOps' = GalLogged(DoneOps)
  /\ galPc' = "wait"
  /\ UNCHANGED <<galI, lastScan, galX, galY, galDX, galDY, galPrevX, galPrevY,
                 galPlotted, galFrames, galKeySeen>>
  /\ UNCHANGED galTics
  /\ UNCHANGED nonGalVars

(* IN_UserInput(24 * 70, false) and StopMusic.                             *)
GalWaitInput ==
  /\ galPc = "wait"
  /\ galOps' = GalLogged(WaitOps)
  /\ galPc' = "end"
  /\ UNCHANGED <<galI, lastScan, galX, galY, galDX, galDY, galPrevX, galPrevY,
                 galPlotted, galScreen, galPal, galFrames, galKeySeen>>
  /\ UNCHANGED galTics
  /\ UNCHANGED nonGalVars



(* ------------------- CK5 map teleporters: open and close ---------------- *)
TeleTiles_Transposed(fg, w, x0) ==
  [k \in 1 .. 4 |-> fg[PlaneIndex(x0 + ((k - 1) \div 2), (k - 1) % 2, w)]]

(* tile_array[y * 2 + x] = CA_TileAtPos(x0 + x, y, 1) for x, y in 0 .. 1.  *)
TeleTiles(fg, w, x0) ==
  [k \in 1 .. 4 |-> fg[PlaneIndex(x0 + ((k - 1) % 2), (k - 1) \div 2, w)]]

(* CK5_OpenMapTeleporter: the template at columns 5 * 2 and 5 * 2 + 1.     *)
CK5_OpenMapTeleporter(fg, w, tileX, tileY) ==
  WritePlane(fg, BlockWrites(TeleTiles(fg, w, 5 * 2), tileX, tileY, 2, 2, w))

(* CK5_CloseMapTeleporter: the template at columns 0 and 1.                *)
CK5_CloseMapTeleporter(fg, w, tileX, tileY) ==
  WritePlane(fg, BlockWrites(TeleTiles(fg, w, 0), tileX, tileY, 2, 2, w))

(* Where the world map has teleporters in the model: on the templates,     *)
(* across a template's edge, and away from them.                           *)
TelePlaces ==
  {<<x, y>> : x \in {0, 5, 5 * 2 - 1, TeleMapW - 2},
              y \in {0, 1, TeleMapH - 2}}

CallOpenMapTeleporter ==
  /\ Len(telePast) < MaxTeleCalls
  /\ mapW = TeleMapW
  /\ \E t \in TelePlaces :
       /\ mapFg' = CK5_OpenMapTeleporter(mapFg, mapW, t[1], t[2])
       /\ telePast' = Append(telePast,
                             [fn |-> "CK5_OpenMapTeleporter", tileX |-> t[1],
                              tileY |-> t[2], fg |-> mapFg, info |-> mapInfo])
  /\ UNCHANGED <<mapInfo, mapW, swObj, swPast, swStatus>>
  /\ UNCHANGED nonMapVars

CallCloseMapTeleporter ==
  /\ Len(telePast) < MaxTeleCalls
  /\ mapW = TeleMapW
  /\ \E t \in TelePlaces :
       /\ mapFg' = CK5_CloseMapTeleporter(mapFg, mapW, t[1], t[2])
       /\ telePast' = Append(telePast,
                             [fn |-> "CK5_CloseMapTeleporter", tileX |-> t[1],
                              tileY |-> t[2], fg |-> mapFg, info |-> mapInfo])
  /\ UNCHANGED <<mapInfo, mapW, swObj, swPast, swStatus>>
  /\ UNCHANGED nonMapVars

(* ------------------------ the object pool, spawners --------------------- *)
(* The handle CK_GetNewObj gives when the pool is exhausted.               *)
NULL == 0

FreeSlot == [live |-> FALSE]

(* An object as CK_GetNewObj hands it out.                                 *)
BlankObj ==
  [live |-> TRUE, type |-> "0", active |-> "0", zLayer |-> 0,
   clipped |-> "0", posX |-> 0, posY |-> 0, action |-> "NULL"]

LiveSlots(p) == {h \in DOMAIN p : p[h].live}

(* CK_GetNewObj: the first free slot, or NULL when every slot is live.     *)
GetNewObj(p) ==
  IF LiveSlots(p) = DOMAIN p THEN [h |-> NULL, pool |-> p]
  ELSE LET h == CHOOSE f \in DOMAIN p \ LiveSlots(p) :
                  \A k \in DOMAIN p \ LiveSlots(p) : f <= k
       IN [h |-> h, pool |-> [p EXCEPT ![h] = BlankObj]]

(* CK_RemoveObj: the slot goes back to the free list.                      *)
RemoveObj(p, h) == [p EXCEPT ![h] = FreeSlot]

(* The stores obj->field = value of a spawner.  Through NULL they reach no *)
(* slot of the pool.                                                       *)
WriteObj(p, h, fields) ==
  IF h = NULL THEN p
  ELSE [p EXCEPT ![h] = [f \in DOMAIN p[h] |->
                           IF f \in DOMAIN fields THEN fields[f] ELSE p[h][f]]]

RF_TileToUnit(t) == t * 256

(* ck_keenObj->clipRects, which CK5_SpawnLightning reads.                  *)
KeenClip == [tileX1 |-> 2, tileY1 |-> 3, tileY2 |-> 4]

(* What a spawner call did: the pool after it, the value returned, the     *)
(* handles CK_GetNewObj gave it and the handles it stored through.         *)
SpawnResult(p, val, acquired, writes) ==
  [pool |-> p, ret |-> val, acquired |-> acquired, writes |-> writes]

CK5_SpawnEnemyShot_NoNullCheck(p, posX, posY, action, notStuck) ==
  LET a == GetNewObj(p)
      p1 == WriteObj(a.pool, a.h,
                     [posX |-> posX, posY |-> posY, type |-> "CT5_EnemyShot",
                      active |-> "OBJ_EXISTS_ONLY_ONSCREEN", action |-> action])
  IN
    IF notStuck THEN SpawnResult(p1, a.h, <<a.h>>, <<a.h>>)
    ELSE SpawnResult(IF a.h = NULL THEN p1 ELSE RemoveObj(p1, a.h), NULL,
                     <<a.h>>, <<a.h>>)

CK5_SpawnEnemyShot_KeepsStuckShot(p, posX, posY, action, notStuck) ==
  LET a == GetNewObj(p)
      p1 == WriteObj(a.pool, a.h,
                     [posX |-> posX, posY |-> posY, type |-> "CT5_EnemyShot",
                      active |-> "OBJ_EXISTS_ONLY_ONSCREEN", action |-> action])
  IN
    IF a.h = NULL THEN SpawnResult(p, NULL, <<NULL>>, <<>>)
    ELSE IF notStuck THEN SpawnResult(p1, a.h, <<a.h>>, <<a.h>>)
    ELSE SpawnResult(p1, NULL, <<a.h>>, <<a.h>>)

(* CK5_SpawnEnemyShot; notStuck is what CK_NotStuckInWall answers.         *)
CK5_SpawnEnemyShot(p, posX, posY, action, notStuck) ==
  LET a == GetNewObj(p)
      p1 == WriteObj(a.pool, a.h,
                     [posX |-> posX, posY |-> posY, type |-> "CT5_EnemyShot",
                      active |-> "OBJ_EXISTS_ONLY_ONSCREEN", action |-> action])
  IN
    IF a.h = NULL THEN SpawnResult(p, NULL, <<NULL>>, <<>>)
    ELSE IF notStuck THEN SpawnResult(p1, a.h, <<a.h>>, <<a.h>>)
    ELSE SpawnResult(RemoveObj(p1, a.h), NULL, <<a.h>>, <<a.h>>)

(* CK5_SpawnLightning: two objects, neither handle is tested.              *)
CK5_SpawnLightning(p) ==
  LET a == GetNewObj(p)
      p1 == WriteObj(a.pool, a.h,
                     [zLayer |-> 3, clipped |-> "CLIP_not", type |-> "24",
                      posX |-> RF_TileToUnit(KeenClip.tileX1) - 128,
                      posY |-> RF_TileToUnit(KeenClip.tileY2) - 1280,
                      action |-> "CK5_ACT_LightningH0"])
      b == GetNewObj(p1)
      p2 == WriteObj(b.pool, b.h,
                     [zLayer |-> 3, clipped |-> "CLIP_not", type |-> "24",
                      posX |-> RF_TileToUnit(KeenClip.tileX1),
                      posY |-> RF_TileToUnit(KeenClip.tileY1) - 128,
                      action |-> "CK5_ACT_LightningV0"])
  IN SpawnResult(p2, NULL, <<a.h, b.h>>, <<a.h, b.h>>)

(* CK5_SpawnFuseExplosion: the handle is not tested.                       *)
CK5_SpawnFuseExplosion(p, tileX, tileY) ==
  LET a == GetNewObj(p)
      p1 == WriteObj(a.pool, a.h,
                     [zLayer |-> 3, clipped |-> "CLIP_not", type |-> "24",
                      posX |-> RF_TileToUnit(tileX - 1),
                      posY |-> RF_TileToUnit(tileY),
                      action |-> "CK5_ACT_FuseExplosion0"])
  IN SpawnResult(p1, NULL, <<a.h>>, <<a.h>>)

(* CK5_SpawnLevelEnd: the handle is not tested.                            *)
CK5_SpawnLevelEnd(p) ==
  LET a == GetNewObj(p)
      p1 == WriteObj(a.pool, a.h,
                     [active |-> "OBJ_ALWAYS_ACTIVE", clipped |-> "CLIP_not",
                      action |-> "CK5_ACT_LevelEnd"])
  IN SpawnResult(p1, NULL, <<a.h>>, <<a.h>>)

(* CK6_SpawnAxisPlatform: the handle is not tested.                        *)
CK6_SpawnAxisPlatform(p, tileX, tileY, direction, purple) ==
  LET a == GetNewObj(p)
      off == IF purple THEN 64 ELSE 0
      p1 == WriteObj(a.pool, a.h,
                     [type |-> "6", active |-> "OBJ_ALWAYS_ACTIVE", zLayer |-> 0,
                      posX |-> RF_TileToUnit(tileX) + off,
                      posY |-> RF_TileToUnit(tileY) + off,
                      action |-> (IF purple THEN "CK6_ACT_purpleAxisPlatform"
                                  ELSE "CK_ACT_AxisPlatform")])
  IN SpawnResult(p1, NULL, <<a.h>>, <<a.h>>)

(* CK6_SpawnRedStandPlatform: the handle is not tested.                    *)
CK6_SpawnRedStandPlatform(p, tileX, tileY) ==
  LET a == GetNewObj(p)
      p1 == WriteObj(a.pool, a.h,
                     [type |-> "6", active |-> "OBJ_ACTIVE", zLayer |-> 0,
                      posX |-> RF_TileToUnit(tileX),
                      posY |-> RF_TileToUnit(tileY),
                      clipped |-> "CLIP_not",
                      action |-> "CK6_ACT_redStandPlatform"])
  IN SpawnResult(p1, NULL, <<a.h>>, <<a.h>>)

PoolIdle ==
  /\ pool = <<>>
  /\ poolLast = [fn |-> "none"]
  /\ poolStatus = "ready"

(* A spawner call fn with the arguments args and the result r.  A store    *)
(* through NULL is undefined: it faults, or it lands outside the pool.     *)
SpawnerCall(fn, args, r) ==
  /\ poolStatus = "ready"
  /\ pool' = r.pool
  /\ poolLast' = [fn |-> fn, args |-> args, before |-> pool, ret |-> r.ret,
                  acquired |-> r.acquired, writes |-> r.writes]
  /\ poolStatus' \in (IF \E k \in DOMAIN r.writes : r.writes[k] = NULL
                        THEN {"fault", "stray"} ELSE {"ready"})
  /\ UNCHANGED nonPoolVars

CallSpawnEnemyShot ==
  \E posX \in {0, 256}, notStuck \in BOOLEAN :
    SpawnerCall("CK5_SpawnEnemyShot",
                <<posX, 512, notStuck>>,
                CK5_SpawnEnemyShot(pool, posX, 512, "CK5_ACT_EnemyShot0", notStuck))

CallSpawnLightning ==
  SpawnerCall("CK5_SpawnLightning", <<>>, CK5_SpawnLightning(pool))

CallSpawnFuseExplosion ==
  SpawnerCall("CK5_SpawnFuseExplosion", <<1, 1>>,
              CK5_SpawnFuseExplosion(pool, 1, 1))

CallSpawnLevelEnd ==
  SpawnerCall("CK5_SpawnLevelEnd", <<>>, CK5_SpawnLevelEnd(pool))

CallSpawnAxisPlatform ==
  \E purple \in BOOLEAN :
    SpawnerCall("CK6_SpawnAxisPlatform", <<1, 1, 0, purple>>,
                CK6_SpawnAxisPlatform(pool, 1, 1, 0, purple))

CallSpawnRedStandPlatform ==
  SpawnerCall("CK6_SpawnRedStandPlatform", <<1, 1>>,
              CK6_SpawnRedStandPlatform(pool, 1, 1))

(* The game removes a live object.                                         *)
CallRemoveObj ==
  /\ poolStatus = "ready"
  /\ \E h \in LiveSlots(pool) :
       /\ pool' = RemoveObj(pool, h)
       /\ poolLast' = [fn |-> "CK_RemoveObj", args |-> <<h>>, before |-> pool,
                       ret |-> NULL, acquired |-> <<>>, writes |-> <<>>]
  /\ UNCHANGED poolStatus
  /\ UNCHANGED nonPoolVars

(* Everything outside the scanners and the presence checks at rest.       *)
ExtIdle == MapIdle /\ GalIdle /\ PoolIdle

Init ==
  /\ episode \in {"CK5", "CK6"}
  /\ difficulty \in {D_Easy, D_Normal, D_Hard}
  /\ codes \in CodeSets
  /\ currentLevel = 0
  /\ levelState = "LS_InLevel"
  /\ numShots = 5
  /\ fusesRemaining = 0
  /\ levelsDone = {}
  /\ ck5_lumpsNeeded = {}
  /\ ck6_lumpsNeeded = {}
  /\ info = <<>>
  /\ objs = <<KeenObj0>>
  /\ objsAtPass = <<>>
  /\ tileLog = <<>>
  /\ scanPhases = <<>>
  /\ chunkReq = <<>>
  /\ teleCalls = <<>>
  /\ pc = "idle"
  /\ keenDir = UserFiles(episode)
  /\ omniDir = OmniFiles(episode)
  /\ egaGraphSize = 464662
  /\ ck6_episode = IF episode = "CK6" THEN "ck6v15e_episode" ELSE "NULL"
  /\ ret = [fn |-> "none", value |-> FALSE]
  /\ ExtIdle

Next == LoadLevel \/ CK5_ScanInfoLayer \/ CK6_ScanInfoLayer \/ LeaveLevel

Spec == Init /\ [][Next]_vars

(* Start-up on an installation of one episode from which at most          *)
(* MaxMissing files are missing in each directory; the engine directory    *)
(* may hold copies of the user files as well.                              *)
InitPresent ==
  /\ \E ext \in {"CK5", "CK6"} :
       \E mk \in SUBSET (UserFiles(ext) \cup OmniFiles(ext)),
          mo \in SUBSET OmniFiles(ext),
          uo \in {{}, UserFiles(ext)} :
         /\ Cardinality(mk) <= MaxMissing
         /\ Cardinality(mo) <= MaxMissing
         /\ keenDir = (UserFiles(ext) \cup OmniFiles(ext)) \ mk
         /\ omniDir = (OmniFiles(ext) \ mo) \cup uo
  /\ egaGraphSize \in {464662, 464661}
  /\ ck6_episode = "NULL"
  /\ ret = [fn |-> "none", value |-> FALSE]
  /\ episode = "CK5"
  /\ difficulty = D_NotPlaying
  /\ codes = {0}
  /\ currentLevel = 0
  /\ levelState = "LS_InLevel"
  /\ numShots = 0
  /\ fusesRemaining = 0
  /\ levelsDone = {}
  /\ ck5_lumpsNeeded = {}
  /\ ck6_lumpsNeeded = {}
  /\ info = <<>>
  /\ objs = <<KeenObj0>>
  /\ objsAtPass = <<>>
  /\ tileLog = <<>>
  /\ scanPhases = <<>>
  /\ chunkReq = <<>>
  /\ teleCalls = <<>>
  /\ pc = "idle"
  /\ ExtIdle

NextPresent == CK5_IsPresent \/ CK6_IsPresent

SpecPresent == InitPresent /\ [][NextPresent]_vars

(* The scanners and the presence checks at rest: no level is loaded.       *)
ScanIdle ==
  /\ episode = "CK6"
  /\ difficulty = D_NotPlaying
  /\ codes = {0}
  /\ currentLevel = 0
  /\ levelState = "LS_InLevel"
  /\ numShots = 0
  /\ fusesRemaining = 0
  /\ levelsDone = {}
  /\ ck5_lumpsNeeded = {}
  /\ ck6_lumpsNeeded = {}
  /\ info = <<>>
  /\ objs = <<KeenObj0>>
  /\ objsAtPass = <<>>
  /\ tileLog = <<>>
  /\ scanPhases = <<>>
  /\ chunkReq = <<>>
  /\ teleCalls = <<>>
  /\ pc = "idle"
  /\ keenDir = {}
  /\ omniDir = {}
  /\ egaGraphSize = 464662
  /\ ck6_episode = "NULL"
  /\ ret = [fn |-> "none", value |-> FALSE]

(* A Keen 6 level with a big switch, before the switch is touched.         *)
InitSwitch ==
  /\ ScanIdle
  /\ GalIdle
  /\ PoolIdle
  /\ \E x1 \in {1, 2}, c \in 0 .. 3, s \in {1, 2}, dx \in {1, 2},
        d \in SwitchDests :
       /\ mapFg = SwitchFg(x1, c, s, dx, d)
       /\ mapInfo = SwitchInfo(c, dx, d)
       /\ swObj = [tileX1 |-> x1, tileY1 |-> 3, tileY2 |-> 1]
  /\ mapW = SwitchMapW
  /\ swPast = <<>>
  /\ swStatus = "ready"
  /\ telePast = <<>>

NextSwitch == CK6_ToggleBigSwitch

SpecSwitch == InitSwitch /\ [][NextSwitch]_vars

(* The end sequence after its set-up: the galaxy picture is faded in,      *)
(* IN_ClearKeysDown has run and the first loop is about to start.          *)
InitGalaxy ==
  /\ ScanIdle
  /\ MapIdle
  /\ PoolIdle
  /\ \E s \in [1 .. NumStars -> StarCases] :
       /\ galX = [i \in 1 .. NumStars |-> s[i][1]]
       /\ galDX = [i \in 1 .. NumStars |-> s[i][2]]
       /\ galY = [i \in 1 .. NumStars |-> s[i][3]]
       /\ galDY = [i \in 1 .. NumStars |-> s[i][4]]
       /\ galPrevX = galX
       /\ galPrevY = galY
  /\ galPc = "pal_pump"
  /\ galI = 0
  /\ lastScan = 0
  /\ galPlotted = {}
  /\ galScreen = {}
  /\ galPal = 0
  /\ galFrames = 0
  /\ galKeySeen = FALSE
  /\ galTics = 0
  /\ galOps = <<>>

NextGalaxy ==
  \/ GalPumpEvents
  \/ GalPaletteStep
  \/ GalCheckKey
  \/ GalExplodeStart
  \/ GalUpdateCoords
  \/ GalTick
  \/ GalDelayOver
  \/ GalDone
  \/ GalWaitInput

SpecGalaxy == InitGalaxy /\ [][NextGalaxy]_vars

(* The end sequence with the tick counter advancing and every call it      *)
(* makes returning: the program goes on while it has a step to take, and   *)
(* the timer interrupt comes while a delay loop waits for it.              *)
SpecGalaxyLive ==
  /\ InitGalaxy
  /\ [][NextGalaxy]_vars
  /\ WF_vars(GalTick)
  /\ WF_vars(GalPumpEvents \/ GalPaletteStep \/ GalCheckKey \/ GalExplodeStart
               \/ GalUpdateCoords \/ GalDelayOver \/ GalDone \/ GalWaitInput)

(* The world map of Keen 5 with a different tile in every cell of either   *)
(* plane, so that a tile tells where it came from.                         *)
InitTele ==
  /\ ScanIdle
  /\ GalIdle
  /\ PoolIdle
  /\ mapW = TeleMapW
  /\ mapFg = [i \in 1 .. (TeleMapW * TeleMapH) |-> 1000 + i]
  /\ mapInfo = [i \in 1 .. (TeleMapW * TeleMapH) |-> 2000 + i]
  /\ swObj = [tileX1 |-> 0, tileY1 |-> 0, tileY2 |-> 0]
  /\ swPast = <<>>
  /\ swStatus = "ready"
  /\ telePast = <<>>

NextTele == CallOpenMapTeleporter \/ CallCloseMapTeleporter

SpecTele == InitTele /\ [][NextTele]_vars

(* The pool with every slot free, before any spawner has run.              *)
InitPool ==
  /\ ScanIdle
  /\ MapIdle
  /\ GalIdle
  /\ pool = [h \in 1 .. PoolCap |-> FreeSlot]
  /\ poolLast = [fn |-> "none"]
  /\ poolStatus = "ready"

NextPool ==
  \/ CallSpawnEnemyShot
  \/ CallSpawnLightning
  \/ CallSpawnFuseExplosion
  \/ CallSpawnLevelEnd
  \/ CallSpawnAxisPlatform
  \/ CallSpawnRedStandPlatform
  \/ CallRemoveObj

SpecPool == InitPool /\ [][NextPool]_vars

(* ------------------------ vocabulary of the claims --------------------- *)
Casc(lo, mid, hi, fn, lumps) ==
  [lo |-> lo, mid |-> mid, hi |-> hi, fn |-> fn, lumps |-> lumps]

(* The three-code cascades {base, Normal-gated, Hard-gated} of each table. *)
GatedCascades(ep) ==
  IF ep = "CK5"
    THEN {Casc(4, 5, 6, "CK5_SpawnSparky", {Lump_Sparky}),
          Casc(7, 8, 9, "CK5_SpawnMine", {Lump_Mine}),
          Casc(10, 11, 12, "CK5_SpawnSlice", {Lump_Slicestar}),
          Casc(13, 14, 15, "CK5_SpawnRobo", {Lump_RoboRed}),
          Casc(16, 17, 18, "CK5_SpawnSpirogrip", {Lump_Spirogrip}),
          Casc(19, 20, 21, "CK5_SpawnSliceDiag", {Lump_Slicestar}),
          Casc(22, 23, 24, "CK5_SpawnSlice", {Lump_Slicestar}),
          Casc(42, 43, 44, "CK5_SpawnAmpton", {Lump_Ampton}),
          Casc(45, 49, 53, "CK_TurretSpawn", {Lump_PinkShot}),
          Casc(46, 50, 54, "CK_TurretSpawn", {Lump_PinkShot}),
          Casc(47, 51, 55, "CK_TurretSpawn", {Lump_PinkShot}),
          Casc(48, 52, 56, "CK_TurretSpawn", {Lump_PinkShot}),
          Casc(71, 72, 73, "CK5_SpawnVolte", {Lump_VolteFace}),
          Casc(74, 75, 76, "CK5_SpawnShelly", {Lump_Shelley}),
          Casc(77, 78, 79, "CK5_SpawnSpindred", {Lump_Spindred}),
          Casc(88, 89, 90, "CK5_SpawnMaster", {Lump_ShikadiMaster}),
          Casc(99, 100, 101, "CK5_SpawnShikadi", {Lump_Shikadi}),
          Casc(102, 103, 104, "CK5_SpawnShocksund", {Lump_Shocksund}),
          Casc(105, 106, 107, "CK5_SpawnSphereful", {Lump_Sphereful})}
    ELSE {Casc(4, 5, 6, "CK6_SpawnBloog", {Lump_Bloog}),
          Casc(18, 19, 20, "CK6_SpawnFleex", {Lump_Fleex}),
          Casc(41, 42, 43, "CK6_SpawnBobba", {Lump_Bobba}),
          Casc(47, 48, 49, "CK6_SpawnNospike", {Lump_Nospike}),
          Casc(50, 51, 52, "CK6_SpawnGik", {Lump_Gik}),
          Casc(70, 71, 72, "CK6_SpawnOrbatrix", {Lump_Orbatrix}),
          Casc(73, 74, 75, "CK6_SpawnBipship",
               {Lump_Bip, Lump_PlatBip, Lump_Bipship}),
          Casc(76, 77, 78, "CK6_SpawnFlect", {Lump_Flect}),
          Casc(79, 80, 81, "CK6_SpawnBlorb", {Lump_Blorb}),
          Casc(82, 83, 84, "CK6_SpawnCeilick", {Lump_Ceilick}),
          Casc(85, 86, 87, "CK6_SpawnBloogguard", {Lump_Bloogguard}),
          Casc(102, 103, 104, "CK6_SpawnBabobba", {Lump_Babobba})}

(* The stand-platform codes, read as a cascade with 35 as highest code.    *)
StandCascade(ep) ==
  Casc(33, 34, 35, "CK_SpawnStandPlatform",
       IF ep = "CK5" THEN {Lump_RedPlat} ELSE {Lump_Platform})

(* The info values that have a case label.                                 *)
TableCodes(ep) ==
  IF ep = "CK5"
    THEN (1 .. 30) \cup (32 .. 90) \cup (99 .. 107) \cup {124, 125}
    ELSE (1 .. 16) \cup (18 .. 20) \cup (24 .. 30) \cup (32 .. 45)
           \cup (47 .. 89) \cup (99 .. 105)

LumpsNeeded == IF episode = "CK5" THEN ck5_lumpsNeeded ELSE ck6_lumpsNeeded
LumpStarts(ep) == IF ep = "CK5" THEN ck5_lumpStarts ELSE ck6_lumpStarts
LumpEnds(ep) == IF ep = "CK5" THEN ck5_lumpEnds ELSE ck6_lumpEnds
LumpIds(ep) == 0 .. (Len(LumpStarts(ep)) - 1)
LumpRange(ep, i) == LumpStarts(ep)[i + 1] .. LumpEnds(ep)[i + 1]

(* The chunk ids that lie in the ranges of both lump l and lump m.         *)
SharedChunks(ep, l, m) ==
  (IF LumpStarts(ep)[l + 1] >= LumpStarts(ep)[m + 1]
     THEN LumpStarts(ep)[l + 1] ELSE LumpStarts(ep)[m + 1])
  ..
  (IF LumpEnds(ep)[l + 1] <= LumpEnds(ep)[m + 1]
     THEN LumpEnds(ep)[l + 1] ELSE LumpEnds(ep)[m + 1])

(* Lump categories whose table entry is (0,0).                             *)
ZeroLumps(ep) ==
  {i \in LumpIds(ep) : LumpStarts(ep)[i + 1] = 0 /\ LumpEnds(ep)[i + 1] = 0}

IsNoOp(e) ==
  /\ e.eff.spawns = <<>>
  /\ e.eff.marks = {}
  /\ e.eff.scroll = <<>>
  /\ e.eff.direct = {}
  /\ e.eff.fuses = e.before

Spawned(e, c) ==
  /\ Len(e.eff.spawns) = 1
  /\ e.eff.spawns[1].fn = c.fn
  /\ e.eff.spawns[1].x = e.x
  /\ e.eff.spawns[1].y = e.y

(* How often the tiles of the scan assigned the needed flag of lump l.     *)
TimesMarked(l) ==
  Cardinality({i \in DOMAIN tileLog : l \in tileLog[i].eff.marks})

(* The requests of the lump pass that fall into the range of lump l.       *)
RequestsIn(ep, l) ==
  SelectSeq(chunkReq,
            LAMBDA c : LumpStarts(ep)[l + 1] <= c /\ c <= LumpEnds(ep)[l + 1])

OnceEach(ep, l) ==
  RequestsIn(ep, l) =
    [j \in 1 .. (LumpEnds(ep)[l + 1] - LumpStarts(ep)[l + 1] + 1) |->
       LumpStarts(ep)[l + 1] + j - 1]

(* -------------------------------- C1 ----------------------------------- *)
(* C1 as stated: at a difficulty below Hard, a tile with the Hard-gated    *)
(* code of a cascade has the spawner calls and lump marks of the next      *)
(* lower code that is eligible at that difficulty.                         *)
EligibleLower(c, d) == IF d >= D_Normal THEN c.mid ELSE c.lo

C1_HardCodeFallsToLowerCode ==
  \A i \in DOMAIN tileLog : \A c \in GatedCascades(episode) :
    (tileLog[i].v = c.hi /\ difficulty < D_Hard) =>
      LET e == tileLog[i]
          low == TileEffect(episode, EligibleLower(c, difficulty), e.x, e.y,
                            [GameState EXCEPT !.fusesRemaining = e.before])
      IN e.eff.spawns = low.spawns /\ e.eff.marks = low.marks

(* C1 amended: at a difficulty below Hard, a tile with the Hard-gated code *)
(* of a cascade has no effect at all: no spawner call, no lump mark, no    *)
(* other change; the lower codes' handler is not run.                      *)
C1_HardCodeBelowHardIsNoOp ==
  \A i \in DOMAIN tileLog : \A c \in GatedCascades(episode) :
    (tileLog[i].v = c.hi /\ difficulty < D_Hard) => IsNoOp(tileLog[i])

C1_Witness ==
  /\ pc = "scanned"
  /\ difficulty < D_Hard
  /\ \E i \in DOMAIN tileLog : \E c \in GatedCascades(episode) :
       tileLog[i].v = c.hi

(* -------------------------------- C2 ----------------------------------- *)
(* C2: at difficulty Hard or above, a tile with the Hard-gated code of a   *)
(* cascade calls the cascade's spawner exactly once, for that tile, and    *)
(* the cascade's lump flags are set.                                       *)
C2_HardCodeSpawnsOnce ==
  \A i \in DOMAIN tileLog : \A c \in GatedCascades(episode) :
    (tileLog[i].v = c.hi /\ difficulty >= D_Hard) =>
      /\ Spawned(tileLog[i], c)
      /\ c.lumps \subseteq tileLog[i].eff.marks
      /\ c.lumps \subseteq LumpsNeeded

C2_Witness ==
  /\ pc = "scanned"
  /\ difficulty >= D_Hard
  /\ \E i \in DOMAIN tileLog : \E c \in GatedCascades(episode) :
       tileLog[i].v = c.hi /\ Len(tileLog[i].eff.spawns) = 1

(* -------------------------------- C3 ----------------------------------- *)
GateRule(c) ==
  \A i \in DOMAIN tileLog :
    LET e == tileLog[i] IN
      /\ e.v = c.hi => (Spawned(e, c) <=> difficulty >= D_Hard)
      /\ e.v = c.mid => (Spawned(e, c) <=> difficulty >= D_Normal)
      /\ e.v = c.lo => Spawned(e, c)

(* C3 as stated: in every gated cascade, the stand-platform codes 33/34/35 *)
(* included, the highest code spawns iff difficulty >= Hard, the next code *)
(* iff difficulty >= Normal, the base code always.                         *)
C3_AllGatesLessThan ==
  \A c \in GatedCascades(episode) \cup {StandCascade(episode)} : GateRule(c)

(* C3 amended: the rule holds in every cascade except the stand-platform   *)
(* codes, whose gates are strictly-greater-than comparisons: 33 spawns iff *)
(* difficulty <= Easy, 34 iff difficulty <= Normal, 35 at every            *)
(* difficulty.                                                             *)
C3_GatesAsCoded ==
  /\ \A c \in GatedCascades(episode) : GateRule(c)
  /\ \A i \in DOMAIN tileLog :
       LET e == tileLog[i]
           c == StandCascade(episode)
       IN /\ e.v = 33 => (Spawned(e, c) <=> difficulty <= D_Easy)
          /\ e.v = 34 => (Spawned(e, c) <=> difficulty <= D_Normal)
          /\ e.v = 35 => Spawned(e, c)
          /\ (e.v \in 33 .. 35 /\ ~Spawned(e, c)) => IsNoOp(e)

C3_Witness ==
  /\ pc = "scanned"
  /\ difficulty = D_Hard
  /\ \E i \in DOMAIN tileLog : tileLog[i].v = 33 /\ IsNoOp(tileLog[i])

(* -------------------------------- C4 ----------------------------------- *)
(* C4: when the scan has returned, every object of the live list that was  *)
(* not always-active when the deactivation loop ran is inactive, and every *)
(* always-active one is still always-active.                               *)
C4_DeactivatedAfterScan ==
  pc = "scanned" =>
    /\ Len(objs) = Len(objsAtPass)
    /\ \A i \in DOMAIN objs :
         IF objsAtPass[i].active = "OBJ_ALWAYS_ACTIVE"
           THEN objs[i].active = "OBJ_ALWAYS_ACTIVE"
           ELSE objs[i].active = "OBJ_INACTIVE"

C4_Witness ==
  /\ pc = "scanned"
  /\ Len(objs) >= 3
  /\ objsAtPass[1].active \in {"OBJ_ACTIVE", "OBJ_EXISTS_ONLY_ONSCREEN"}
  /\ objs[1].active = "OBJ_INACTIVE"

(* -------------------------------- C5 ----------------------------------- *)
(* C5 as stated: when two or more tiles of one scan mark the same lump,    *)
(* the lump pass requests every chunk of that lump's range exactly once,   *)
(* and no chunk id lies in the ranges of two lumps of the episode's table  *)
(* (the table is looked at while no level is loaded).                      *)
C5_OnceAndRangesDisjoint ==
  /\ pc = "scanned" =>
       \A l \in LumpIds(episode) : TimesMarked(l) >= 2 => OnceEach(episode, l)
  /\ pc = "idle" =>
       \A l, m \in LumpIds(episode) :
         l # m => SharedChunks(episode, l, m) = {}

(* C5 amended: the chunks are requested exactly once each and no chunk of  *)
(* such a lump lies in a second range; the only chunk id that lies in two  *)
(* ranges of a table is 0, shared by the (0,0) entries of the CK6 table    *)
(* (12, 37, 38, 39), and none of those lumps is flagged.                   *)
C5_OnceAndOnlyZeroShared ==
  /\ pc = "scanned" =>
       \A l \in LumpIds(episode) :
         TimesMarked(l) >= 2 =>
           /\ OnceEach(episode, l)
           /\ \A m \in LumpIds(episode) \ {l} : SharedChunks(episode, l, m) = {}
  /\ pc = "idle" =>
       \A l, m \in LumpIds(episode) :
         (l # m /\ SharedChunks(episode, l, m) # {}) =>
           /\ SharedChunks(episode, l, m) = {0}
           /\ {l, m} \subseteq ZeroLumps(episode)
           /\ {l, m} \cap LumpsNeeded = {}

C5_Witness ==
  /\ pc = "scanned"
  /\ \E l \in LumpIds(episode) :
       TimesMarked(l) >= 2 /\ Len(RequestsIn(episode, l)) >= 2

(* -------------------------------- C6 ----------------------------------- *)
(* C6: after any sequence of scans no lump with range (0,0) is flagged and *)
(* the lump pass has not requested chunk 0.                                *)
C6_ZeroRangeNeverRequested ==
  /\ ZeroLumps(episode) \cap LumpsNeeded = {}
  /\ \A k \in DOMAIN chunkReq : chunkReq[k] # 0

(* A scan whose own tiles mark nothing and whose lump pass still requests  *)
(* chunks: the flags come from an earlier scan.                            *)
C6_Witness ==
  /\ pc = "scanned"
  /\ chunkReq # <<>>
  /\ \A i \in DOMAIN tileLog : tileLog[i].eff.marks = {}

(* -------------------------------- C7 ----------------------------------- *)
(* C7: in CK5 a tile with info value 41 sets fusesRemaining to 4 and       *)
(* spawns the QED object at that tile when the level index is 12, and      *)
(* otherwise adds exactly 1 to fusesRemaining and spawns nothing; the      *)
(* QED-fuse lump is marked in both cases.                                  *)
C7_FuseTile ==
  episode = "CK5" =>
    \A i \in DOMAIN tileLog :
      LET e == tileLog[i] IN
        e.v = 41 =>
          /\ IF currentLevel = 12
               THEN /\ e.eff.fuses = 4
                    /\ e.eff.spawns = <<Call("CK5_QEDSpawn", e.x, e.y, 0, "")>>
               ELSE /\ e.eff.fuses = e.before + 1
                    /\ e.eff.spawns = <<>>
          /\ Lump_QEDFuse \in e.eff.marks
          /\ Lump_QEDFuse \in ck5_lumpsNeeded

C7_Witness ==
  /\ episode = "CK5"
  /\ pc = "scanned"
  /\ currentLevel = 12
  /\ \E i \in DOMAIN tileLog : tileLog[i].v = 41 /\ tileLog[i].before = 4

(* -------------------------------- C8 ----------------------------------- *)
(* C8: a tile whose info value has no case label spawns nothing, marks no  *)
(* lump, sets no scroll block and leaves the game state alone, and the     *)
(* scan goes on: every tile of the map is dispatched.                      *)
C8_UnknownValueIsNoOp ==
  /\ \A i \in DOMAIN tileLog :
       tileLog[i].v \notin TableCodes(episode) => IsNoOp(tileLog[i])
  /\ pc = "scanned" => Len(tileLog) = MapW * MapH

C8_Witness ==
  /\ pc = "scanned"
  /\ episode = "CK5"
  /\ tileLog[1].v \in {31, 200}
  /\ Len(tileLog) = MapW * MapH

(* -------------------------------- C9 ----------------------------------- *)
(* C9: a presence check that returns false has changed no program state.   *)
C9_FailedCheckChangesNothing ==
  [][((CK5_IsPresent \/ CK6_IsPresent) /\ ret'.value = FALSE) =>
       UNCHANGED <<gameVars, fsVars, ck6_episode>>]_vars

(* -------------------------------- C10 ---------------------------------- *)
AllPresent(ext) ==
  /\ \A f \in UserFiles(ext) : f \in keenDir
  /\ \A f \in OmniFiles(ext) : f \in keenDir \/ f \in omniDir

(* C10: a presence check returns true iff the three user files are in the  *)
(* game-data root and each of the eight supplemental files is in the       *)
(* game-data root or in the engine root.                                   *)
C10_PresentIffAllFiles ==
  /\ ret.fn = "CK5_IsPresent" => (ret.value <=> AllPresent("CK5"))
  /\ ret.fn = "CK6_IsPresent" => (ret.value <=> AllPresent("CK6"))

C10_Witness ==
  /\ ret.fn \in {"CK5_IsPresent", "CK6_IsPresent"}
  /\ ret.value = TRUE
  /\ \E f \in omniDir : f \notin keenDir

(* -------------------------------- C15 ---------------------------------- *)
(* The tile of log entry e made exactly one RF_SetScrollBlock call, for    *)
(* its own position, with the flag b.                                      *)
ScrollUpdate(e, b) ==
  e.eff.scroll = <<[x |-> e.x, y |-> e.y, block |-> b]>>

(* C15 as stated: in either scanner a tile with code 25 or code 26 makes a *)
(* scroll-block update for its own position.                               *)
C15_BothCodesSetScrollBlock ==
  \A i \in DOMAIN tileLog :
    tileLog[i].v \in {25, 26} =>
      ScrollUpdate(tileLog[i], TRUE) \/ ScrollUpdate(tileLog[i], FALSE)

(* C15 amended: code 25 sets the scroll block of its tile in both          *)
(* scanners; code 26 clears it in the Keen 6 scanner only.  In the Keen 5  *)
(* scanner code 26 makes no scroll-block update: it spawns the map Keen at *)
(* the tile when the level state is LS_TeleportToKorath and does nothing   *)
(* otherwise.                                                              *)
C15_Code26UpdatesScrollBlockInCK6Only ==
  \A i \in DOMAIN tileLog :
    LET e == tileLog[i] IN
      /\ e.v = 25 => ScrollUpdate(e, TRUE)
      /\ (e.v = 26 /\ episode = "CK6") => ScrollUpdate(e, FALSE)
      /\ (e.v = 26 /\ episode = "CK5") =>
           /\ e.eff.scroll = <<>>
           /\ IF levelState = "LS_TeleportToKorath"
                THEN e.eff.spawns =
                       <<Call("CK5_MapKeenTeleSpawn", e.x, e.y, 0, "")>>
                ELSE IsNoOp(e)

C15_Witness ==
  /\ pc = "scanned"
  /\ episode = "CK5"
  /\ \E i \in DOMAIN tileLog :
       tileLog[i].v = 26 /\ tileLog[i].eff.scroll = <<>> /\ ~IsNoOp(tileLog[i])

(* -------------------------------- C18 ---------------------------------- *)
(* The place of a pass among the passes of the last scan.                  *)
PhaseAt(ph) == CHOOSE k \in DOMAIN scanPhases : scanPhases[k].phase = ph

(* The chunk ids asked for in the lump pass.                               *)
Requested == {chunkReq[k] : k \in DOMAIN chunkReq}

PlanesAfter(k) ==
  IF k = Len(swPast) THEN [fg |-> mapFg, info |-> mapInfo]
  ELSE [fg |-> swPast[k + 1].fg, info |-> swPast[k + 1].info]

(* Calls k and k + 1 are the same toggle made twice, both inside the       *)
(* planes.                                                                 *)
TwiceAt(k) ==
  /\ k \in 1 .. (Len(swPast) - 1)
  /\ swPast[k].ok /\ swPast[k + 1].ok
  /\ swPast[k].log.dir = swPast[k + 1].log.dir

(* The positions of the two bridge rows of call k: row destY from column   *)
(* destX, row destY + 1 from column destX - 1, up to the map's width.      *)
BridgeRowCells(k) ==
  LET g == swPast[k].log IN
    {PlaneIndex(x, g.destY, mapW) : x \in g.destX .. (mapW - 1)}
    \cup {PlaneIndex(x, g.destY + 1, mapW) : x \in (g.destX - 1) .. (mapW - 1)}

(* The cells of those rows that call k replaced.                           *)
BridgeRun(k) ==
  {i \in BridgeRowCells(k) : PlanesAfter(k).fg[i] # swPast[k].fg[i]}

(* t is one frame of a two-frame animation.                                *)
TwoFrame(t) ==
  /\ TI_ForeAnimTile(t) # 0
  /\ TI_ForeAnimTile(t + TI_ForeAnimTile(t)) = -TI_ForeAnimTile(t)

(* -------------------------------- C11 ---------------------------------- *)
(* C11 as stated: when the destination's misc flag is bridge, the same     *)
(* toggle made twice leaves the foreground tile of every position of both  *)
(* bridge rows as it was before the first of the two calls.                *)
C11_BridgeToggleTwiceRestores ==
  \A k \in 1 .. (Len(swPast) - 1) :
    (TwiceAt(k) /\ swPast[k].log.branch = "bridge") =>
      \A i \in BridgeRowCells(k) : PlanesAfter(k + 1).fg[i] = swPast[k].fg[i]

(* C11 amended: the round trip holds when every tile the first call        *)
(* replaces in the two rows is one frame of a two-frame animation whose    *)
(* other frame carries the bridge flag too; the first call puts the other  *)
(* frame at each of these positions.                                       *)
C11_TwoFrameBridgeRestores ==
  \A k \in 1 .. (Len(swPast) - 1) :
    (/\ TwiceAt(k)
     /\ swPast[k].log.branch = "bridge"
     /\ \A i \in BridgeRowCells(k) :
          TI_ForeAnimTile(swPast[k].fg[i]) # 0 =>
            /\ TwoFrame(swPast[k].fg[i])
            /\ TI_ForeMisc(swPast[k].fg[i] + TI_ForeAnimTile(swPast[k].fg[i])).flag
                 = "MISCFLAG_BRIDGE")
    =>
      /\ \A i \in BridgeRun(k) :
           PlanesAfter(k).fg[i]
             = swPast[k].fg[i] + TI_ForeAnimTile(swPast[k].fg[i])
      /\ \A i \in BridgeRowCells(k) : PlanesAfter(k + 1).fg[i] = swPast[k].fg[i]

C11_Witness ==
  /\ TwiceAt(1)
  /\ swPast[1].log.branch = "bridge"
  /\ swPast[1].fg[PlaneIndex(swPast[1].log.destX, swPast[1].log.destY, mapW)] = 3
  /\ Cardinality(BridgeRun(1)) >= 3
  /\ \A i \in BridgeRowCells(1) : mapFg[i] = swPast[1].fg[i]

(* -------------------------------- C19 ---------------------------------- *)
(* The info-plane cells at or after position p that hold a non-zero value. *)
NonZeroFrom(plane, p) ==
  {i \in DOMAIN plane : i >= p /\ plane[i] # 0}

(* The six cells of the 2x3 block whose top-left cell is at index o.       *)
BlockCells(o, w) ==
  {o + j * w + i : i \in 0 .. 1, j \in 0 .. 2}

(* What holds of the search of call k whatever the level holds: it starts  *)
(* at (tileX1, ty + 1), and when a non-zero value lies at or after the     *)
(* start it stops at the first one, having moved one column per zero; the  *)
(* block replaced begins one column left of it, in the row above.          *)
SearchFinds(k) ==
  LET c == swPast[k]
      g == c.log
      o == g.found - mapW - 1
  IN
    /\ g.ty = (IF g.dir THEN swObj.tileY2 ELSE swObj.tileY1 - 2)
    /\ g.start = PlaneIndex(swObj.tileX1, g.ty + 1, mapW)
    /\ NonZeroFrom(c.info, g.start) # {} =>
         /\ c.searchEnded
         /\ g.found \in NonZeroFrom(c.info, g.start)
         /\ \A i \in g.start .. (g.found - 1) : c.info[i] = 0
         /\ g.tx = swObj.tileX1 - 1 + (g.found - g.start)
         /\ PlaneIndex(g.tx, g.ty, mapW) = o
         /\ (c.ok /\ \A i \in BlockCells(o, mapW) : i < PlaneIndex(0, g.destY, mapW)) =>
              \A i \in BlockCells(o, mapW) :
                PlanesAfter(k).fg[i] = U16(c.fg[i] + TI_ForeAnimTile(c.fg[i]))

StarOutX(i) == U16(galPrevX[i] + galDX[i]) > GalMaxX

StarOutY(i) == U16(galPrevY[i] + galDY[i]) > GalMaxY

Stars == DOMAIN galX

(* -------------------------------- C12 ---------------------------------- *)
(* C12 as stated: a star whose next step would leave the bounds in x or    *)
(* in y has neither its x nor its y changed by the update.                 *)
C12_OutOfBoundStarKeepsXAndY ==
  galFrames > 0 =>
    \A i \in Stars :
      (StarOutX(i) \/ StarOutY(i)) =>
        galX[i] = galPrevX[i] /\ galY[i] = galPrevY[i]

(* C12 amended: a star whose step leaves the bounds in x keeps x and y; a  *)
(* star whose step stays inside in x and leaves the bounds in y has its x  *)
(* advanced and keeps its y.                                               *)
C12_OutOfBoundStarKeepsY ==
  galFrames > 0 =>
    \A i \in Stars :
      /\ StarOutX(i) => galX[i] = galPrevX[i] /\ galY[i] = galPrevY[i]
      /\ (~StarOutX(i) /\ StarOutY(i)) =>
           galX[i] = U16(galPrevX[i] + galDX[i]) /\ galY[i] = galPrevY[i]

C12_Witness ==
  /\ galFrames > 0
  /\ \E i \in Stars : StarOutX(i) /\ galDX[i] # 0 /\ galDY[i] # 0
  /\ \E i \in Stars : ~StarOutX(i) /\ StarOutY(i) /\ galX[i] # galPrevX[i]

(* -------------------------------- C13 ---------------------------------- *)
(* C13 as stated: a star whose next step would leave the bounds is still   *)
(* plotted in that frame, at its last valid position.                      *)
C13_OutOfBoundStarStillPlotted ==
  galPc \in {"exp_update2", "exp_check"} =>
    \A i \in Stars :
      (StarOutX(i) \/ StarOutY(i)) =>
        StarPixel(galPrevX[i], galPrevY[i]) \in galScreen

(* C13 amended: a star whose next step would leave the bounds is not       *)
(* plotted in that frame; the blanked buffer holds the pixels of the stars *)
(* whose step stayed inside, and no others.                                *)
C13_OutOfBoundStarNotPlotted ==
  galPc \in {"exp_update2", "exp_check"} =>
    /\ \A i \in Stars : (StarOutX(i) \/ StarOutY(i)) <=> i \notin galPlotted
    /\ galScreen = {StarPixel(galX[i], galY[i]) : i \in galPlotted}

C13_Witness ==
  /\ galPc = "exp_check"
  /\ \E i \in Stars :
       /\ StarOutX(i)
       /\ i \notin galPlotted
       /\ StarPixel(galPrevX[i], galPrevY[i]) \notin galScreen
  /\ galPlotted # {}

(* -------------------------------- C14 ---------------------------------- *)
(* Once a check has seen a key, no palette step and no star update is made *)
(* any more: the sequence goes from the check to the steps after done,     *)
(* in their order.                                                         *)
C14_KeyEndsTheLoops ==
  galKeySeen =>
    /\ galPc \in {"done", "wait", "end"}
    /\ galOps = (CASE galPc = "done" -> <<>>
                   [] galPc = "wait" -> DoneOps
                   [] OTHER -> DoneOps \o WaitOps)

C14_Witness ==
  /\ galKeySeen
  /\ galPc = "end"
  /\ galFrames \in 1 .. (2 * ExplodeSteps - 1)
  /\ galOps = DoneOps \o WaitOps

(* ---------------------------- spawner claims --------------------------- *)
Spawners ==
  {"CK5_SpawnEnemyShot", "CK5_SpawnLightning", "CK5_SpawnFuseExplosion",
   "CK5_SpawnLevelEnd", "CK6_SpawnAxisPlatform", "CK6_SpawnRedStandPlatform"}

(* The last call was a spawner's, and CK_GetNewObj answered it with NULL.  *)
AcquiredNull ==
  /\ poolLast.fn \in Spawners
  /\ \E k \in DOMAIN poolLast.acquired : poolLast.acquired[k] = NULL

(* The last call stored through the handle NULL.                           *)
WroteThroughNull ==
  \E k \in DOMAIN poolLast.writes : poolLast.writes[k] = NULL

LiveCount(p) == Cardinality(LiveSlots(p))

(* -------------------------------- C16 ---------------------------------- *)
(* C16 as stated: a spawner whose CK_GetNewObj returns NULL gives up       *)
(* without a store through the handle, and a spawner whose only acquire    *)
(* returned NULL leaves the pool as it was.                                *)
C16_EverySpawnerChecksForNull ==
  AcquiredNull =>
    /\ ~WroteThroughNull
    /\ poolStatus = "ready"
    /\ poolLast.acquired = <<NULL>> => pool = poolLast.before

(* C16 amended: CK5_SpawnEnemyShot alone tests the handle: on NULL it      *)
(* stores nothing, leaves the pool as it was and returns NULL.  The other  *)
(* five spawners store through the handle untested, NULL included.         *)
C16_OnlyEnemyShotChecksForNull ==
  AcquiredNull =>
    IF poolLast.fn = "CK5_SpawnEnemyShot"
      THEN /\ poolLast.writes = <<>>
           /\ poolLast.ret = NULL
           /\ pool = poolLast.before
           /\ poolStatus = "ready"
      ELSE /\ WroteThroughNull
           /\ poolStatus \in {"fault", "stray"}

C16_Witness ==
  /\ poolLast.fn = "CK5_SpawnEnemyShot"
  /\ poolLast.acquired = <<NULL>>
  /\ LiveCount(pool) = PoolCap
  /\ poolStatus = "ready"

(* -------------------------------- C20 ---------------------------------- *)
(* A failed CK5_SpawnEnemyShot returns NULL and leaves the pool as it was: *)
(* with the pool exhausted it stores nothing, with the shot stuck in a     *)
(* wall the object is removed again, and the count of live objects is the  *)
(* one before the call.  A successful call returns the new object, an      *)
(* enemy shot that exists only on screen, at the position given.           *)
C20_EnemyShotFailsCleanly ==
  poolLast.fn = "CK5_SpawnEnemyShot" =>
    LET h == poolLast.acquired[1] IN
      IF h = NULL \/ ~poolLast.args[3]
        THEN /\ poolLast.ret = NULL
             /\ pool = poolLast.before
             /\ LiveCount(pool) = LiveCount(poolLast.before)
             /\ h = NULL => poolLast.writes = <<>>
        ELSE /\ poolLast.ret = h
             /\ h \notin LiveSlots(poolLast.before)
             /\ pool[h].live
             /\ pool[h].type = "CT5_EnemyShot"
             /\ pool[h].active = "OBJ_EXISTS_ONLY_ONSCREEN"
             /\ pool[h].posX = poolLast.args[1]
             /\ pool[h].posY = poolLast.args[2]
             /\ \A k \in DOMAIN pool \ {h} : pool[k] = poolLast.before[k]

C20_Witness ==
  /\ poolLast.fn = "CK5_SpawnEnemyShot"
  /\ poolLast.acquired[1] # NULL
  /\ ~poolLast.args[3]
  /\ poolLast.ret = NULL
  /\ LiveCount(pool) = 1

(* -------------------------------- C17 ---------------------------------- *)
(* The foreground plane as teleporter call k left it.                      *)
FgAfterTele(k) == IF k = Len(telePast) THEN mapFg ELSE telePast[k + 1].fg

InfoAfterTele(k) == IF k = Len(telePast) THEN mapInfo ELSE telePast[k + 1].info

(* Either teleporter call overwrites the 2x2 foreground block at           *)
(* (tileX, tileY) with the tiles that were at the template, columns 10     *)
(* and 11 of rows 0 and 1 for Open and columns 0 and 1 for Close, and      *)
(* changes no other foreground tile and no tile of another plane.          *)
C17_TeleporterWritesItsBlockOnly ==
  \A k \in 1 .. Len(telePast) :
    LET c == telePast[k]
        x0 == IF c.fn = "CK5_OpenMapTeleporter" THEN 10 ELSE 0
        block == {PlaneIndex(c.tileX + i, c.tileY + j, mapW) :
                    i \in 0 .. 1, j \in 0 .. 1}
    IN
      /\ \A i \in 0 .. 1, j \in 0 .. 1 :
           FgAfterTele(k)[PlaneIndex(c.tileX + i, c.tileY + j, mapW)]
             = c.fg[PlaneIndex(x0 + i, j, mapW)]
      /\ \A n \in DOMAIN c.fg \ block : FgAfterTele(k)[n] = c.fg[n]
      /\ DOMAIN FgAfterTele(k) = DOMAIN c.fg
      /\ InfoAfterTele(k) = c.info

C17_Witness ==
  /\ Len(telePast) = 2
  /\ telePast[1].fn = "CK5_OpenMapTeleporter"
  /\ telePast[2].fn = "CK5_CloseMapTeleporter"
  /\ telePast[1].tileX = telePast[2].tileX
  /\ telePast[1].tileY = telePast[2].tileY
  /\ mapFg # telePast[1].fg
  /\ mapFg # telePast[2].fg

(* -------------------------------- C21 ---------------------------------- *)
GateCalled(fn, x, y) ==
  \E k \in DOMAIN teleCalls : teleCalls[k] = TeleCall(fn, x, y)

KeenTileRow == objs[1].posY \div 256

(* C21: at the end of CK5_ScanInfoLayer the world-map gates are touched    *)
(* only on level 0, with Y the tile row of Keen: gate (24,76) is closed    *)
(* and gate (22,55) opened iff Y < 75 or Y > 100, gate (26,55) is opened   *)
(* iff levels 4, 6, 8 and 10 are done and Y > 39, gate (24,30) is opened   *)
(* iff Y < 39 or Y > 100; on any other level no gate is opened or closed.  *)
C21_MapGatesOnlyOnWorldMap ==
  (pc = "scanned" /\ episode = "CK5") =>
    IF currentLevel = 0
      THEN
        /\ GateCalled("CK5_CloseMapTeleporter", 24, 76)
             <=> (KeenTileRow < 75 \/ KeenTileRow > 100)
        /\ GateCalled("CK5_OpenMapTeleporter", 22, 55)
             <=> (KeenTileRow < 75 \/ KeenTileRow > 100)
        /\ GateCalled("CK5_OpenMapTeleporter", 26, 55)
             <=> ({4, 6, 8, 10} \subseteq levelsDone /\ KeenTileRow > 39)
        /\ GateCalled("CK5_OpenMapTeleporter", 24, 30)
             <=> (KeenTileRow < 39 \/ KeenTileRow > 100)
        /\ \A k \in DOMAIN teleCalls :
             teleCalls[k] \in
               {TeleCall("CK5_CloseMapTeleporter", 24, 76),
                TeleCall("CK5_OpenMapTeleporter", 22, 55),
                TeleCall("CK5_OpenMapTeleporter", 26, 55),
                TeleCall("CK5_OpenMapTeleporter", 24, 30)}
      ELSE teleCalls = <<>>

C21_Witness ==
  /\ pc = "scanned"
  /\ episode = "CK5"
  /\ currentLevel = 0
  /\ KeenTileRow = 75
  /\ {4, 6, 8, 10} \subseteq levelsDone
  /\ teleCalls = <<TeleCall("CK5_OpenMapTeleporter", 26, 55)>>

(* -------------------------------- C22 ---------------------------------- *)
(* The info value at the destination of call k, before and after it.       *)
DestInfoBefore(k) ==
  swPast[k].info[PlaneIndex(swPast[k].log.destX, swPast[k].log.destY, mapW)]

DestInfoAfter(k, j) ==
  PlanesAfter(j).info[PlaneIndex(swPast[k].log.destX, swPast[k].log.destY, mapW)]

SameDest(k) ==
  /\ swPast[k].log.destX = swPast[k + 1].log.destX
  /\ swPast[k].log.destY = swPast[k + 1].log.destY

(* C22 as stated: when the first of two equal toggles takes the generic    *)
(* block effect (info value outside 0x5B..0x62, misc flag none of the      *)
(* zapper and bridge flags), the second one restores the destination's     *)
(* info value.                                                             *)
C22_BlockToggleTwiceRestores ==
  \A k \in 1 .. (Len(swPast) - 1) :
    (TwiceAt(k) /\ swPast[k].log.branch = "block") =>
      DestInfoAfter(k, k + 1) = DestInfoBefore(k)

(* C22 amended: the value is restored when the second toggle takes the     *)
(* generic block effect at the same destination too; the first toggle      *)
(* leaves v XOR 0x1F, and when that is an arrow value the second toggle    *)
(* takes the arrow effect and does not restore v.                          *)
C22_BlockTwiceRestoresWhenBlockAgain ==
  \A k \in 1 .. (Len(swPast) - 1) :
    (TwiceAt(k) /\ swPast[k].log.branch = "block" /\ SameDest(k)) =>
      /\ DestInfoAfter(k, k) = BitXor(DestInfoBefore(k), 31)
      /\ swPast[k + 1].log.branch = "block"
           => DestInfoAfter(k, k + 1) = DestInfoBefore(k)
      /\ swPast[k + 1].log.branch = "arrow"
           => /\ DestInfoAfter(k, k) \in 91 .. 98
              /\ DestInfoAfter(k, k + 1) # DestInfoBefore(k)

C22_Witness ==
  /\ Len(swPast) = 2
  /\ TwiceAt(1)
  /\ SameDest(1)
  /\ swPast[1].log.branch = "block"
  /\ swPast[2].log.branch = "block"
  /\ DestInfoBefore(1) = 5
  /\ DestInfoAfter(1, 1) = 26
  /\ DestInfoAfter(1, 2) = 5

(* -------------------------------- C23 ---------------------------------- *)
(* The cells of the switch's own 2x3 block in call k.                      *)
SwitchBlock(k) ==
  {PlaneIndex(swPast[k].log.tx + i, swPast[k].log.ty + j, mapW) :
     i \in 0 .. 1, j \in 0 .. 2}

(* C23: when the destination's info value is 0x5B + i with i in 0..7, the  *)
(* toggle takes the arrow effect whatever the misc flag of the foreground  *)
(* tile there is and leaves 0x5B + inv[i], inv = {2,3,0,1,6,7,4,5}, which  *)
(* is in 0x5B..0x62 again; no foreground tile outside the switch's own     *)
(* block and no other info value changes, and the same toggle made twice   *)
(* restores the value.                                                     *)
C23_ArrowToggleIsAnInvolution ==
  \A k \in 1 .. Len(swPast) :
    (swPast[k].ok /\ DestInfoBefore(k) \in 91 .. 98) =>
      LET d == PlaneIndex(swPast[k].log.destX, swPast[k].log.destY, mapW)
          i == DestInfoBefore(k) - 91
      IN
        /\ swPast[k].log.branch = "arrow"
        /\ DestInfoAfter(k, k) = 91 + <<2, 3, 0, 1, 6, 7, 4, 5>>[i + 1]
        /\ DestInfoAfter(k, k) \in 91 .. 98
        /\ \A n \in DOMAIN swPast[k].fg \ SwitchBlock(k) :
             PlanesAfter(k).fg[n] = swPast[k].fg[n]
        /\ \A n \in DOMAIN swPast[k].info \ {d} :
             PlanesAfter(k).info[n] = swPast[k].info[n]
        /\ (k < Len(swPast) /\ TwiceAt(k)) =>
             /\ SameDest(k)
             /\ swPast[k + 1].log.branch = "arrow"
             /\ DestInfoAfter(k, k + 1) = DestInfoBefore(k)

C23_Witness ==
  /\ Len(swPast) = 2
  /\ TwiceAt(1)
  /\ swPast[1].log.branch = "arrow"
  /\ swPast[2].log.branch = "arrow"
  /\ TI_ForeMisc(swPast[1].fg[PlaneIndex(swPast[1].log.destX,
                                         swPast[1].log.destY, mapW)]).flag
       = "MISCFLAG_ACTIVEZAPPER"
  /\ DestInfoBefore(1) = 95
  /\ DestInfoAfter(1, 1) = 97
  /\ DestInfoAfter(1, 2) = 95

(* -------------------------------- C24 ---------------------------------- *)
(* The length of the run of deadly tiles in column x from row y down, in   *)
(* the plane.                                                              *)
RECURSIVE DeadlyRun(_, _, _)
DeadlyRun(fg, x, y) ==
  IF InPlane(fg, PlaneIndex(x, y, mapW))
     /\ MiscIs(fg[PlaneIndex(x, y, mapW)], "MISCFLAG_DEADLY")
    THEN 1 + DeadlyRun(fg, x, y + 1)
    ELSE 0

(* The run below the destination of call k, and whether a tile of the      *)
(* plane follows it.                                                       *)
RunOf(k) == DeadlyRun(swPast[k].fg, swPast[k].log.destX, swPast[k].log.destY + 1)

RunBounded(k) ==
  InPlane(swPast[k].fg,
          PlaneIndex(swPast[k].log.destX, swPast[k].log.destY + RunOf(k) + 1,
                     mapW))

(* The zapper loop of call k came to an end.                               *)
ZapperLoopEnded(k) ==
  swPast[k].ok \/ (k = Len(swPast) /\ swStatus = "stray")

(* What the active-zapper effect of call k does when a tile of the plane   *)
(* follows the deadly run: template (0,0) at the destination, template     *)
(* (1,0) on the run, template (2,0) on the tile after it, and nothing else *)
(* of column destX outside the switch's own block.                         *)
ZapperExtends(k) ==
  LET c == swPast[k]
      g == c.log
      n == RunOf(k)
      after == PlanesAfter(k).fg
      T(x) == c.fg[PlaneIndex(x, 0, mapW)]
      written == {PlaneIndex(g.destX, y, mapW) : y \in g.destY .. (g.destY + n + 1)}
      column == {PlaneIndex(g.destX, y, mapW) : y \in 0 .. (Len(c.fg) \div mapW - 1)}
  IN
    /\ c.ok
    /\ ZapperLoopEnded(k)
    /\ after[PlaneIndex(g.destX, g.destY, mapW)] = T(0)
    /\ \A y \in (g.destY + 1) .. (g.destY + n) :
         after[PlaneIndex(g.destX, y, mapW)] = T(1)
    /\ after[PlaneIndex(g.destX, g.destY + n + 1, mapW)] = T(2)
    /\ Cardinality(written) = 2 + n
    /\ \A i \in DOMAIN c.fg \ (written \cup SwitchBlock(k)) : after[i] = c.fg[i]
    /\ \A i \in written : after[i] # c.fg[i]
    /\ written \subseteq column
    /\ PlanesAfter(k).info = c.info

C25_ExplodeGalaxyTerminates ==
  /\ <>(galPc = "end")
  /\ [](galPc \in {"pal_pump", "pal_set", "pal_check"} => galI < 18)
  /\ [](galPc \in {"exp_pump", "exp_update1", "exp_wait1", "exp_update2",
                    "exp_wait2", "exp_check"} => galI < 30)
  /\ [](galFrames <= 60)
  /\ [](galPc = "end" => galI <= 30)

C25_Witness ==
  /\ galPc = "end"
  /\ ~galKeySeen
  /\ lastScan = 0
  /\ galI = 30
  /\ galFrames = 60

(* -------------------------------- C26 ---------------------------------- *)
(* The chunks of the lumps in the set ls.                                  *)
ChunksOf(ep, ls) == UNION {LumpRange(ep, l) : l \in ls}

(* C26: no step clears a lump flag of either episode, and a scan submits   *)
(* the chunks of every lump flagged when it ends, those of all lumps a     *)
(* scan before it flagged among them, whatever the level it scans holds.   *)
C26_LumpFlagsNeverCleared ==
  [][/\ ck5_lumpsNeeded \subseteq ck5_lumpsNeeded'
     /\ ck6_lumpsNeeded \subseteq ck6_lumpsNeeded'
     /\ pc' = "scanned" =>
          /\ Requested' = ChunksOf(episode, LumpsNeeded')
          /\ ChunksOf(episode, LumpsNeeded) \subseteq Requested']_vars

(* A scan of a level without any marking tile that submits chunks.         *)
C26_Witness ==
  /\ pc = "scanned"
  /\ tileLog # <<>>
  /\ \A k \in DOMAIN tileLog : tileLog[k].eff.marks = {}
  /\ LumpsNeeded # {}
  /\ Requested = ChunksOf(episode, LumpsNeeded)
  /\ Requested # {}

(* -------------------------------- C27 ---------------------------------- *)
(* The tiles of the level that carry the info value v.                     *)
TilesWith(v) == {i \in DOMAIN info : info[i] = v}

(* C27: after CK5_ScanInfoLayer on a level other than 12, fusesRemaining   *)
(* is the number of tiles of that level with info value 41, whatever it    *)
(* was before the scan: nothing is carried over from the level before.     *)
C27_FusesCountedPerLevel ==
  (pc = "scanned" /\ episode = "CK5" /\ currentLevel # 12) =>
    fusesRemaining = Cardinality(TilesWith(41))

(* A level without fuses scanned after a level that had some.              *)
C27_Witness ==
  /\ pc = "scanned"
  /\ episode = "CK5"
  /\ currentLevel # 12
  /\ 41 \in codes
  /\ Lump_QEDFuse \in ck5_lumpsNeeded
  /\ TilesWith(41) = {}
  /\ fusesRemaining = 0

(* -------------------------------- C28 ---------------------------------- *)
(* The calls of the scan to the spawner fn, in scan order.                 *)
CallsOf(fn) ==
  SelectSeq(AllSpawns(tileLog), LAMBDA c : c.fn = fn)

(* C28: a CK5 scan of a level with exactly one tile of code 3 and exactly  *)
(* one of code 26 calls exactly one map-Keen spawner, CK_SpawnMapKeen when *)
(* the level state is not teleport-to-Korath and CK5_MapKeenTeleSpawn when *)
(* it is, and flags the map-Keen lump either way.                          *)
C28_OneMapKeenSpawner ==
  (/\ pc = "scanned" /\ episode = "CK5"
   /\ Cardinality(TilesWith(3)) = 1
   /\ Cardinality(TilesWith(26)) = 1)
  =>
    /\ Len(CallsOf("CK_SpawnMapKeen")) + Len(CallsOf("CK5_MapKeenTeleSpawn")) = 1
    /\ Len(CallsOf("CK_SpawnMapKeen")) = 1
         <=> levelState # "LS_TeleportToKorath"
    /\ Len(CallsOf("CK5_MapKeenTeleSpawn")) = 1
         <=> levelState = "LS_TeleportToKorath"
    /\ \E k \in DOMAIN tileLog :
         tileLog[k].v = 3 /\ Lump_MapKeen \in tileLog[k].eff.marks
    /\ Lump_MapKeen \in ck5_lumpsNeeded

C28_Witness ==
  /\ pc = "scanned" /\ episode = "CK5"
  /\ Cardinality(TilesWith(3)) = 1
  /\ Cardinality(TilesWith(26)) = 1
  /\ levelState = "LS_TeleportToKorath"
  /\ Len(CallsOf("CK5_MapKeenTeleSpawn")) = 1
  /\ Len(CallsOf("CK_SpawnMapKeen")) = 0

(* -------------------------------- C29 ---------------------------------- *)
(* C29 as stated: the stars start within 0 .. 320 * 0x80 by                *)
(* 0 .. 200 * 0x80, and every pixel CK_GalExplodeUpdateCoords plots lies   *)
(* on the visible screen, x in 0 .. 319 and y in 0 .. 199.                 *)
C29_PlottedPixelsOnScreen ==
  /\ \A c \in StarCases : c[1] \in 0 .. GalMaxX /\ c[3] \in 0 .. GalMaxY
  /\ \A p \in galScreen : p[1] \in 0 .. 319 /\ p[2] \in 0 .. 199

(* -------------------------------- C30 ---------------------------------- *)
ItemLumps(ep) == IF ep = "CK5" THEN ck5_itemLumps ELSE ck6_itemLumps

MaxLumps(ep) == IF ep = "CK5" THEN CK5_MAXLUMPS ELSE CK6_MAXLUMPS

(* C30: every table index the scanners compute is in bounds.  The item     *)
(* codes 57..68, and 69 taken as 68 when numShots < 5 (no spawn            *)
(* otherwise), give the item index code - 57 in 0..11 into the 12-entry    *)
(* item-lump table; every lump flagged, the table's entries and in CK6     *)
(* Lump_BloogletR + ((v - 7) mod 4) for the codes 7..14 among them, is     *)
(* below MAXLUMPS; the CK5 keycard code 70 gives the item index 12 and     *)
(* reads no table.                                                         *)
C30_TableIndicesInBounds ==
  pc = "scanned" =>
    /\ Len(ItemLumps(episode)) = 12
    /\ \A k \in DOMAIN tileLog :
         LET t == tileLog[k] IN
           /\ t.eff.marks \subseteq 0 .. (MaxLumps(episode) - 1)
           /\ t.v \in 57 .. 69 =>
                /\ t.eff.spawns = <<>> <=> (t.v = 69 /\ numShots >= 5)
                /\ t.eff.spawns # <<>> =>
                     /\ Len(t.eff.spawns) = 1
                     /\ t.eff.spawns[1].fn = "CK_SpawnItem"
                     /\ t.eff.spawns[1].arg = (IF t.v = 69 THEN 68 ELSE t.v) - 57
                     /\ t.eff.spawns[1].arg \in 0 .. 11
                     /\ t.eff.marks
                          = {ItemLumps(episode)[t.eff.spawns[1].arg + 1]}
           /\ (episode = "CK5" /\ t.v = 70) =>
                /\ Len(t.eff.spawns) = 1
                /\ t.eff.spawns[1].fn = "CK_SpawnItem"
                /\ t.eff.spawns[1].arg = 12
                /\ t.eff.marks = {Lump_Keycard}
           /\ (episode = "CK6" /\ t.v \in 7 .. 14) =>
                /\ t.eff.marks = {Lump_BloogletR + ((t.v - 7) % 4)}
                /\ Lump_BloogletR + ((t.v - 7) % 4) < CK6_MAXLUMPS

C30_Witness ==
  /\ pc = "scanned"
  /\ episode = "CK5"
  /\ numShots = 4
  /\ \E k \in DOMAIN tileLog :
       /\ tileLog[k].v = 69
       /\ tileLog[k].eff.spawns[1].arg = 11
       /\ tileLog[k].eff.marks = {Lump_Stunner}

====
